---- MODULE Spec2Model ----
(***************************************************************************)
(* Orchestration core of the PostgreSQL debugging chatbot:                 *)
(*   chatbot/agent.py            PostgresDebugAgent.analyze (the loop)     *)
(*   chatbot/history_manager.py  HistoryManager (the Conversation Store)   *)
(*   chatbot/tools.py            ToolExecutor.execute (the dispatcher)     *)
(*                                                                         *)
(* analyze is an asyncio coroutine.  It is modelled as a process whose     *)
(* program counter names the await it is suspended in; the code between    *)
(* two awaits runs without interruption (one event loop, one thread).      *)
(* Python lists are objects: get_history hands out the cached list itself  *)
(* and analyze appends to it in place, so lists live in a heap and are     *)
(* named by references.                                                    *)
(***************************************************************************)
EXTENDS Integers, Sequences, FiniteSets, TLC

VARIABLES
    heap,              \* list objects: reference -> sequence of messages
    self_hist,         \* agent.conversation_history (a reference, 0 = unset)
    cache,             \* HistoryManager.in_memory_cache: id -> reference, 0 = no entry
    disk,              \* durable storage: id -> [exists, data, readable] (the file <id>.json)
    pc,                \* per analyze call: where the coroutine is
    cid,               \* per call: conversation_id argument
    iteration,         \* per call: local iteration
    final_response,    \* per call: local final_response
    tool_calls_made,   \* per call: local tool_calls_made (the trace)
    message,           \* per call: message.tool_calls of the last model response
    tc_idx,            \* per call: position of the for loop over message.tool_calls
    result,            \* per call: the mapping analyze returned
    exc,               \* per call: the exception that left analyze (None = none)
    backend,           \* per call: the backend's answer to the handler's query (history variable)
    req,               \* per call: number of the request (history variable)
    sent,              \* per call: messages passed to the last model invocation (history variable)
    responses,         \* per call: the model's responses, [calls, content] each (history variable)
    ncalls,            \* number of analyze calls started (history variable)
    odd,               \* number of unusual tool-call requests made so far (history variable)
    store_in,          \* argument of the last direct save_history call
    got,               \* what the last direct get_history call returned
    saved,             \* per id: "never" saved directly, "saved", or "cleared" after a save (history variable)
    exec_in,           \* arguments of a direct ToolExecutor.execute call
    exec_out,          \* what that call did
    time_in,           \* argument of a TimeRangeParser.parse call
    time_out,          \* what that call did
    health_idx,        \* _get_health_summary: health-check metrics examined so far
    health_seen,       \* _get_health_summary: what each examined metric came back as
    summary,           \* _get_health_summary: local summary
    anom_in,           \* the series the backend returns to an _analyze_metric_anomalies call
    anom_out,          \* what that call returned
    corr_in,           \* metric_names of a _correlate_metrics call and the backend's answers
    corr_out,          \* what that call returned
    gw_cache,          \* PrometheusClient.cache: its live and stale entries, least recently used first
    gw_now,            \* the clock the cache reads
    gw_last,           \* the last query: its key, and whether the backend was contacted
    gw_fresh,          \* number of distinct other queries issued so far (history variable)
    gw_bursts,         \* number of runs of other queries issued so far (history variable)
    chat_in,           \* the last request to the chat endpoint
    chat_out,          \* the endpoint's reply to it
    cur_in,            \* metric_name of a _get_current_metric_value call and the backend's answer
    cur_out            \* what that call returned

vars == << heap, self_hist, cache, disk, pc, cid, iteration, final_response,
           tool_calls_made, message, tc_idx, result, exc, backend, req, sent,
           responses, ncalls, odd, store_in, got, saved, exec_in, exec_out,
           time_in, time_out, health_idx, health_seen, summary,
           anom_in, anom_out, corr_in, corr_out, gw_cache, gw_now, gw_last, gw_fresh, gw_bursts,
           chat_in, chat_out, cur_in, cur_out >>

\* the variables of the direct calls, which analyze leaves alone
store_direct  == << store_in, got, saved >>
exec_direct   == << exec_in, exec_out >>
time_direct   == << time_in, time_out >>
health_direct == << health_idx, health_seen, summary >>
anomaly_direct   == << anom_in, anom_out >>
correlate_direct == << corr_in, corr_out >>
gateway_direct   == << gw_cache, gw_now, gw_last, gw_fresh, gw_bursts >>
chat_direct      == << chat_in, chat_out >>
current_direct   == << cur_in, cur_out >>
tools_direct  == << anomaly_direct, correlate_direct, gateway_direct, chat_direct, current_direct >>
direct == << store_direct, exec_direct, time_direct, health_direct, tools_direct >>

-----------------------------------------------------------------------------
(* Bounds of the model *)

\* analyze calls per run, where calls follow one another
MaxCalls == 2
\* tool calls the model may request in one turn
MaxToolCalls == 2
\* unusual model turns (anything but one plain tool call) per analyze call
MaxOdd == 1
\* exchanges of the conversation found in durable storage at process start
MaxPrior == 3
\* extra length, beyond max_history + 1, of a history handed to save_history directly
MaxExtra == 5
\* model turns that ask for tools, over two concurrent requests
MaxTurns == 3
\* samples in a series handed to the anomaly analysis
MaxSamples == 6
\* metric names handed to correlate_metrics
MaxMetrics == 3
\* runs of distinct queries issued between the repetitions of a query
MaxBursts == 3

(* Program constants *)

\* agent.py:208
max_iterations == 6
\* history_manager.py:9 (the default PostgresDebugAgent.__init__ uses)
max_history == 20
\* PrometheusClient.cache = TTLCache(maxsize = 100, ttl = 30)
maxsize == 100
ttl == 30

-----------------------------------------------------------------------------
(* Values *)

None == "None"
NoConv == "None"
NoFile == [exists |-> FALSE, data |-> <<>>, readable |-> FALSE]
ConvIds == {"A", "B"}
Procs == {1, 2}
Refs == 1 .. (Cardinality(ConvIds) + 2)

NoResult == [keys |-> {}, error |-> ""]

Msg(role, content, tool_call_id, tool_calls, payload, r) ==
    [role |-> role, content |-> content, tool_call_id |-> tool_call_id,
     tool_calls |-> tool_calls, payload |-> payload, req |-> r]

\* {"role": "system", "content": self.SYSTEM_PROMPT}
SystemMsg == Msg("system", "SYSTEM_PROMPT", <<>>, <<>>, NoResult, 0)

\* {"role": "user", "content": context}; the context carries the current time,
\* so the message of request r is its own
UserMsg(r) == Msg("user", "query", <<>>, <<>>, NoResult, r)

\* {"role": "assistant", "content": message.content, "tool_calls": [...]}
AssistantCallsMsg(content, tcs, r) == Msg("assistant", content, <<>>, tcs, NoResult, r)

\* {"role": "assistant", "content": final_response}
AssistantMsg(content, r) == Msg("assistant", content, <<>>, <<>>, NoResult, r)

\* a tool message that always names the first call of its request's turn
ToolMsg_first_id(id, res, r) == Msg("tool", "", << id[1], id[2], 1 >>, <<>>, res, r)

\* {"role": "tool", "tool_call_id": tool_call.id, "content": json.dumps(result)}
ToolMsg(id, res, r) == Msg("tool", "", id, <<>>, res, r)

-----------------------------------------------------------------------------
(* HistoryManager *)

\* the lists something still refers to
Roots(sh, ch) == ({sh} \cup {ch[i] : i \in ConvIds}) \ {0}

\* a new list object: the least reference nothing refers to
FreshRef(roots) == CHOOSE r \in Refs : r \notin roots /\ \A q \in Refs : q \notin roots => r <= q

\* lists nothing refers to any more are dropped
Collect(hp, sh, ch) == [r \in Refs |-> IF r \in Roots(sh, ch) THEN hp[r] ELSE <<>>]

\* history[-(self.max_history):]
LastN(history, n) == SubSeq(history, Len(history) - n + 1, Len(history))

\* a trimming that prepends the leading system message whatever the tail begins with
Trim_always_prepends(history) ==
    IF Len(history) > max_history + 1
    THEN IF history[1].role = "system"
         THEN << history[1] >> \o LastN(history, max_history)
         ELSE LastN(history, max_history)
    ELSE history

\* a trimming that slices from the wrong end: history[:max_history + 1]
Trim_from_start(history) ==
    IF Len(history) > max_history + 1 THEN SubSeq(history, 1, max_history + 1) ELSE history

\* a trimming that keeps the tail only
Trim_tail_only(history) ==
    IF Len(history) > max_history + 1 THEN LastN(history, max_history) ELSE history

\* save_history, the trimming of lines 42-48: the list that is stored
Trim(history) ==
    IF Len(history) > max_history + 1
    THEN LET has_system == history[1].role = "system"
             remaining  == LastN(history, max_history)
         IN  IF has_system /\ remaining[1] # history[1]
             THEN << history[1] >> \o remaining
             ELSE remaining
    ELSE history

\* get_history: [ref, heap, cache]; ref = 0 is the new empty list of "return []"
get_history(id, hp, sh, ch, dk) ==
    IF ch[id] # 0
    THEN [ref |-> ch[id], heap |-> hp, cache |-> ch]
    ELSE IF dk[id].exists /\ dk[id].readable
         THEN LET r == FreshRef(Roots(sh, ch))
              IN  [ref |-> r, heap |-> [hp EXCEPT ![r] = dk[id].data],
                   cache |-> [ch EXCEPT ![id] = r]]
         ELSE [ref |-> 0, heap |-> hp, cache |-> ch]

\* what the write of lines 55-57 does: it succeeds, or open fails and the file
\* stays as it was, or the write breaks off and leaves a file that is not JSON
WriteOutcomes == {"written", "unwritten", "partial"}

\* the file <id>.json after the write of data
Written(old, data, write) ==
    CASE write = "written"   -> [exists |-> TRUE, data |-> data, readable |-> TRUE]
      [] write = "unwritten" -> old
      [] write = "partial"   -> [exists |-> TRUE, data |-> << >>, readable |-> FALSE]

\* a save_history without the try/except around the write: a failed write raises
save_history_unguarded(id, h, hp, sh, ch, dk, write) ==
    LET old     == hp[h]
        trimmed == Len(old) > max_history + 1
        r       == IF trimmed THEN FreshRef(Roots(sh, ch) \cup {h}) ELSE h
        hp2     == IF trimmed THEN [hp EXCEPT ![r] = Trim(old)] ELSE hp
    IN  [heap   |-> hp2,
         cache  |-> [ch EXCEPT ![id] = r],
         disk   |-> [dk EXCEPT ![id] = Written(@, hp2[r], write)],
         raised |-> write # "written"]

\* save_history(conversation_id, history) with history the list h:
\* [heap, cache, disk, raised].  A failed write is caught and printed (lines 58-59).
\* An untrimmed history is stored as the very list that was passed in; a trimmed
\* one is a new list.
save_history(id, h, hp, sh, ch, dk, write) ==
    LET old     == hp[h]
        trimmed == Len(old) > max_history + 1
        r       == IF trimmed THEN FreshRef(Roots(sh, ch) \cup {h}) ELSE h
        hp2     == IF trimmed THEN [hp EXCEPT ![r] = Trim(old)] ELSE hp
    IN  [heap   |-> hp2,
         cache  |-> [ch EXCEPT ![id] = r],
         disk   |-> [dk EXCEPT ![id] = Written(@, hp2[r], write)],
         raised |-> FALSE]

\* a clear that forgets the cache entry and leaves the file
clear_history_cache_only(id, ch, dk) ==
    [cache |-> [ch EXCEPT ![id] = 0], disk |-> dk]

\* clear_history: [cache, disk]
clear_history(id, ch, dk) ==
    [cache |-> [ch EXCEPT ![id] = 0], disk |-> [dk EXCEPT ![id] = NoFile]]

-----------------------------------------------------------------------------
(* ToolExecutor *)

\* the keys of ToolExecutor.execute's handlers
Handlers == {"query_prometheus_metric", "get_current_metric_value",
             "analyze_metric_anomalies", "get_health_summary", "correlate_metrics",
             "get_metric_info", "list_available_metrics", "generate_incident_report"}

\* parameters without a default, per handler signature
Required(name) ==
    CASE name = "query_prometheus_metric"  -> {"metric_name", "start_timestamp", "end_timestamp"}
      [] name = "get_current_metric_value" -> {"metric_name"}
      [] name = "analyze_metric_anomalies" -> {"metric_name", "start_timestamp", "end_timestamp"}
      [] name = "get_health_summary"       -> {}
      [] name = "correlate_metrics"        -> {"metric_names", "start_timestamp", "end_timestamp"}
      [] name = "get_metric_info"          -> {"metric_name"}
      [] name = "list_available_metrics"   -> {}
      [] name = "generate_incident_report" -> {"incident_type", "severity", "root_cause",
                                               "affected_metrics", "recommendations"}

\* parameters with a default
Defaulted(name) ==
    CASE name = "query_prometheus_metric"  -> {"step"}
      [] name = "generate_incident_report" -> {"start_time", "end_time"}
      [] OTHER -> {}

\* handlers that look metric_name up in the catalog and answer "Unknown metric"
LooksUpMetric == {"query_prometheus_metric", "get_current_metric_value",
                  "analyze_metric_anomalies", "get_metric_info"}

\* handlers that query the time-series backend
UsesBackend == {"query_prometheus_metric", "get_current_metric_value",
                "analyze_metric_anomalies", "get_health_summary", "correlate_metrics"}

\* handlers that answer a non-success backend status with "Query failed"
\* (get_health_summary and correlate_metrics leave the failed metric out)
ReportsFailure == {"query_prometheus_metric", "get_current_metric_value",
                   "analyze_metric_anomalies"}

\* argument payloads (tool_call.function.arguments is text)
ArgEmpty     == "{}"
ArgKnown     == "{\"metric_name\": \"cpu_utilization\"}"
ArgUnknown   == "{\"metric_name\": \"no_such_metric\"}"
ArgList      == "[]"
ArgMalformed == "{\"metric_name\": "
ArgTexts     == {ArgEmpty, ArgKnown, ArgUnknown, ArgList, ArgMalformed}

\* json.loads: [ok, kind, keys, metric]; ok = FALSE is JSONDecodeError
json_loads(text) ==
    CASE text = ArgEmpty   -> [ok |-> TRUE,  kind |-> "dict", keys |-> {}, metric |-> ""]
      [] text = ArgKnown   -> [ok |-> TRUE,  kind |-> "dict", keys |-> {"metric_name"},
                               metric |-> "cpu_utilization"]
      [] text = ArgUnknown -> [ok |-> TRUE,  kind |-> "dict", keys |-> {"metric_name"},
                               metric |-> "no_such_metric"]
      [] text = ArgList    -> [ok |-> TRUE,  kind |-> "list", keys |-> {}, metric |-> ""]
      [] OTHER             -> [ok |-> FALSE, kind |-> "", keys |-> {}, metric |-> ""]

\* PromQLBuilder.get_metric(name) is not None, for the names the payloads carry
KnownMetric(name) == name \in {"cpu_utilization", "waiting_locks", "dead_tuples"}

\* handler(**arguments) binds: a mapping with every required key and no unexpected key
Binds(name, arguments) ==
    /\ arguments.kind = "dict"
    /\ Required(name) \subseteq arguments.keys
    /\ arguments.keys \subseteq Required(name) \cup Defaulted(name)

ErrorResult(text, extra) == [keys |-> {"error"} \cup extra, error |-> text]

\* the keys of the mapping a handler returns when nothing fails
ResultKeys(name) ==
    CASE name = "query_prometheus_metric"  -> {"metric_name", "description", "unit", "time_range", "series"}
      [] name = "get_current_metric_value" -> {"metric_name", "description", "unit", "current_values",
                                               "threshold_status", "thresholds"}
      [] name = "analyze_metric_anomalies" -> {"metric_name", "analysis_period", "anomaly_analysis"}
      [] name = "get_health_summary"       -> {"status", "metrics", "alerts"}
      [] name = "correlate_metrics"        -> {"time_range", "metrics_data", "correlations"}
      [] name = "get_metric_info"          -> {"name", "metric_key", "description", "unit",
                                               "promql_query", "thresholds"}
      [] name = "list_available_metrics"   -> {"available_metrics", "total_count"}
      [] name = "generate_incident_report" -> {"report_type", "generated_at", "incident",
                                               "analysis", "recommendations"}

\* what the backend does with the queries of one tool execution
BackendOutcomes == {"success", "failure", "raise"}

\* await handler(**arguments): [raised, value]
Handle(name, arguments, answer) ==
    IF ~Binds(name, arguments)
    THEN [raised |-> TRUE, value |-> ErrorResult("TypeError", {})]
    ELSE IF name \in LooksUpMetric /\ ~KnownMetric(arguments.metric)
    THEN [raised |-> FALSE, value |-> ErrorResult("Unknown metric", {})]
    ELSE IF name \in UsesBackend /\ answer = "raise"
    THEN [raised |-> TRUE, value |-> ErrorResult("HTTPError", {})]
    ELSE IF name \in ReportsFailure /\ answer = "failure"
    THEN [raised |-> FALSE, value |-> ErrorResult("Query failed", {"details"})]
    ELSE [raised |-> FALSE, value |-> [keys |-> ResultKeys(name), error |-> ""]]

\* the handler awaits the backend (the coroutine is suspended there)
Suspends(name, arguments) ==
    /\ name \in Handlers
    /\ name \in UsesBackend
    /\ Binds(name, arguments)
    /\ name \in LooksUpMetric => KnownMetric(arguments.metric)

\* an execute that indexes the handler table: an unregistered name raises KeyError
execute_indexing(tool_name, arguments, answer) ==
    IF tool_name \notin Handlers
    THEN [raised |-> TRUE, value |-> ErrorResult("KeyError", {})]
    ELSE LET h == Handle(tool_name, arguments, answer)
         IN  IF h.raised
             THEN [raised |-> FALSE, value |-> ErrorResult(h.value.error, {})]
             ELSE h

\* an execute without the try/except around the handler
execute_unguarded(tool_name, arguments, answer) ==
    IF tool_name \notin Handlers
    THEN [raised |-> FALSE, value |-> ErrorResult("Unknown tool", {})]
    ELSE Handle(tool_name, arguments, answer)

\* ToolExecutor.execute: [raised, value]
execute(tool_name, arguments, answer) ==
    IF tool_name \notin Handlers
    THEN [raised |-> FALSE, value |-> ErrorResult("Unknown tool", {})]
    ELSE LET h == Handle(tool_name, arguments, answer)
         IN  IF h.raised
             THEN [raised |-> FALSE, value |-> ErrorResult(h.value.error, {})]
             ELSE h

\* PostgresDebugAgent._summarize_result
summarize_result(res) ==
    IF "error" \in res.keys THEN "Error"
    ELSE IF "metric_name" \in res.keys THEN "Retrieved"
    ELSE IF "available_metrics" \in res.keys THEN "Listed"
    ELSE IF "report_type" \in res.keys THEN "Generated"
    ELSE "Completed"

-----------------------------------------------------------------------------
(* The model collaborator and its tool-call requests *)

\* a tool call of a model response
ToolCall(id, name, arguments) == [id |-> id, name |-> name, arguments |-> arguments]

\* the usual request: a registered tool, a known metric, no backend involved
Plain == [name |-> "get_metric_info", arguments |-> ArgKnown]

\* the requests the model chooses from; "run_sql" is not registered
ToolMenu ==
    { Plain,
      [name |-> "get_metric_info",          arguments |-> ArgUnknown],
      [name |-> "get_metric_info",          arguments |-> ArgEmpty],
      [name |-> "get_metric_info",          arguments |-> ArgMalformed],
      [name |-> "run_sql",                  arguments |-> ArgEmpty],
      [name |-> "get_current_metric_value", arguments |-> ArgKnown],
      [name |-> "get_health_summary",       arguments |-> ArgEmpty] }

\* the requests of one model turn, as sequences over the menu
Turns == UNION { [1 .. n -> ToolMenu] : n \in 1 .. MaxToolCalls }

\* how unusual a turn is: the number of requests beyond the first or the number
\* of requests that are not Plain, whichever is larger
Oddity(turn) ==
    LET more   == Len(turn) - 1
        others == Cardinality({k \in 1 .. Len(turn) : turn[k] # Plain})
    IN  IF more > others THEN more ELSE others

\* the turns that are at most b unusual
TurnsUpTo == [b \in 0 .. MaxOdd |-> {turn \in Turns : Oddity(turn) <= b}]

\* the texts of a final answer; None is a response without content
FinalContents == {"T", None}

-----------------------------------------------------------------------------
(* PostgresDebugAgent.analyze *)

NoReturn == [returned |-> FALSE, analysis |-> None, iterations |-> 0,
             tool_calls |-> <<>>, conversation_id |-> NoConv]

\* a coroutine that is not running: not started, returned, raised, or suspended in an await
Suspended == {"idle", "done", "raised", "await_llm", "await_tool"}

\* the event loop runs p only while no other coroutine is between two awaits
CanRun(p) == \A q \in Procs \ {p} : pc[q] \in Suspended

\* an entry of tool_calls_made
TraceEntry(name, arguments, res) ==
    [tool |-> name, arguments |-> arguments, result_summary |-> summarize_result(res)]

\* lines 213-222: the loop test, the increment, and the model invocation with
\* messages = self.conversation_history (hp is the heap at that moment)
LoopHead(p, hp) ==
    IF iteration[p] < max_iterations
    THEN /\ iteration' = [iteration EXCEPT ![p] = @ + 1]
         /\ sent' = [sent EXCEPT ![p] = hp[self_hist]]
         /\ pc' = [pc EXCEPT ![p] = "await_llm"]
    ELSE /\ pc' = [pc EXCEPT ![p] = "finish"]
         /\ UNCHANGED << iteration, sent >>

\* a load without the else branch of line 190: a call without a conversation id
\* goes on with the list the agent already has
Load_keeps_list(id, hp, sh, ch, dk) ==
    IF id # NoConv
    THEN get_history(id, hp, sh, ch, dk)
    ELSE [ref |-> sh, heap |-> hp, cache |-> ch]

\* lines 187-190: the list self.conversation_history is bound to, [ref, heap, cache];
\* ref = 0 is a new empty list
Load(id, hp, sh, ch, dk) ==
    IF id # NoConv
    THEN get_history(id, hp, sh, ch, dk)
    ELSE [ref |-> 0, heap |-> hp, cache |-> ch]

\* lines 187-222: load or begin the history, add the user message, enter the loop
StartCore(p, id) ==
    /\ pc[p] \in {"idle", "done", "raised"}
    /\ CanRun(p)
    /\ LET g     == Load(id, heap, self_hist, cache, disk)
           empty == g.ref = 0 \/ g.heap[g.ref] = << >>
           h     == IF empty THEN FreshRef(Roots(0, g.cache)) ELSE g.ref
           base  == IF empty THEN << SystemMsg >> ELSE g.heap[h]
           hp    == [g.heap EXCEPT ![h] = Append(base, UserMsg(ncalls + 1))]
       IN  /\ self_hist' = h
           /\ heap' = Collect(hp, h, g.cache)
           /\ cache' = g.cache
           /\ IF 0 < max_iterations
              THEN /\ iteration' = [iteration EXCEPT ![p] = 1]
                   /\ sent' = [sent EXCEPT ![p] = hp[h]]
                   /\ pc' = [pc EXCEPT ![p] = "await_llm"]
              ELSE /\ iteration' = [iteration EXCEPT ![p] = 0]
                   /\ sent' = [sent EXCEPT ![p] = << >>]
                   /\ pc' = [pc EXCEPT ![p] = "finish"]
    /\ cid' = [cid EXCEPT ![p] = id]
    /\ final_response' = [final_response EXCEPT ![p] = None]
    /\ tool_calls_made' = [tool_calls_made EXCEPT ![p] = << >>]
    /\ message' = [message EXCEPT ![p] = << >>]
    /\ tc_idx' = [tc_idx EXCEPT ![p] = 0]
    /\ result' = [result EXCEPT ![p] = NoReturn]
    /\ exc' = [exc EXCEPT ![p] = None]
    /\ backend' = [backend EXCEPT ![p] = ""]
    /\ req' = [req EXCEPT ![p] = ncalls + 1]
    /\ responses' = [responses EXCEPT ![p] = << >>]
    /\ ncalls' = ncalls + 1
    /\ UNCHANGED << disk, odd >>

\* analyze called by itself
Start(p, id) ==
    /\ StartCore(p, id)
    /\ UNCHANGED direct

\* the answer is not kept: the loop is left before final_response is assigned
LLMFinal_answer_lost(p, content) ==
    /\ pc[p] = "await_llm"
    /\ CanRun(p)
    /\ responses' = [responses EXCEPT ![p] = Append(@, [calls |-> 0, content |-> content])]
    /\ pc' = [pc EXCEPT ![p] = "finish"]
    /\ UNCHANGED << heap, self_hist, cache, disk, cid, iteration, final_response,
                    tool_calls_made, message, tc_idx, result, exc, backend, req, sent,
                    ncalls, odd, direct >>

\* lines 224-229: the model answered without tool calls
LLMFinal(p, content) ==
    /\ pc[p] = "await_llm"
    /\ CanRun(p)
    /\ final_response' = [final_response EXCEPT ![p] = content]
    /\ responses' = [responses EXCEPT ![p] = Append(@, [calls |-> 0, content |-> content])]
    /\ pc' = [pc EXCEPT ![p] = "finish"]
    /\ UNCHANGED << heap, self_hist, cache, disk, cid, iteration, tool_calls_made,
                    message, tc_idx, result, exc, backend, req, sent, ncalls, odd, direct >>

\* lines 224-246: the model requested tool calls; the assistant message recording
\* them is appended to self.conversation_history
LLMToolCalls(p, turn) ==
    /\ pc[p] = "await_llm"
    /\ CanRun(p)
    /\ LET tcs == [k \in 1 .. Len(turn) |->
                     ToolCall(<< req[p], iteration[p], k >>, turn[k].name, turn[k].arguments)]
       IN  /\ heap' = [heap EXCEPT ![self_hist] = Append(@, AssistantCallsMsg(None, tcs, req[p]))]
           /\ message' = [message EXCEPT ![p] = tcs]
    /\ tc_idx' = [tc_idx EXCEPT ![p] = 1]
    /\ responses' = [responses EXCEPT ![p] = Append(@, [calls |-> Len(turn), content |-> None])]
    /\ odd' = odd + Oddity(turn)
    /\ pc' = [pc EXCEPT ![p] = "tool"]
    /\ UNCHANGED << self_hist, cache, disk, cid, iteration, final_response,
                    tool_calls_made, result, exc, backend, req, sent, ncalls, direct >>

\* line 217: the model collaborator raised; the exception leaves analyze
LLMRaise(p) ==
    /\ pc[p] = "await_llm"
    /\ CanRun(p)
    /\ pc' = [pc EXCEPT ![p] = "raised"]
    /\ exc' = [exc EXCEPT ![p] = "ModelError"]
    /\ UNCHANGED << heap, self_hist, cache, disk, cid, iteration, final_response,
                    tool_calls_made, message, tc_idx, result, backend, req, sent,
                    responses, ncalls, odd, direct >>

\* lines 255-265 and the loop bookkeeping after them: the outcome of execute for
\* the current tool call is recorded, then the next tool call or the next turn follows
Record(p, tc, arguments, out) ==
    IF out.raised
    THEN /\ pc' = [pc EXCEPT ![p] = "raised"]
         /\ exc' = [exc EXCEPT ![p] = out.value.error]
         /\ UNCHANGED << heap, iteration, tool_calls_made, tc_idx, sent >>
    ELSE LET hp == [heap EXCEPT ![self_hist] = Append(@, ToolMsg(tc.id, out.value, req[p]))]
         IN  /\ tool_calls_made' = [tool_calls_made EXCEPT
                   ![p] = Append(@, TraceEntry(tc.name, arguments, out.value))]
             /\ heap' = hp
             /\ UNCHANGED exc
             /\ IF tc_idx[p] < Len(message[p])
                THEN /\ tc_idx' = [tc_idx EXCEPT ![p] = @ + 1]
                     /\ pc' = [pc EXCEPT ![p] = "tool"]
                     /\ UNCHANGED << iteration, sent >>
                ELSE /\ tc_idx' = [tc_idx EXCEPT ![p] = 0]
                     /\ LoopHead(p, hp)

\* lines 248-253: the next tool call of the turn: parse its arguments and call
\* execute; a handler that queries the backend suspends the coroutine
ToolStep(p) ==
    /\ pc[p] = "tool"
    /\ CanRun(p)
    /\ LET tc        == message[p][tc_idx[p]]
           arguments == json_loads(tc.arguments)
       IN  IF ~arguments.ok
           THEN /\ pc' = [pc EXCEPT ![p] = "raised"]
                /\ exc' = [exc EXCEPT ![p] = "JSONDecodeError"]
                /\ UNCHANGED << heap, iteration, tool_calls_made, tc_idx, sent >>
           ELSE IF Suspends(tc.name, arguments)
           THEN /\ pc' = [pc EXCEPT ![p] = "await_tool"]
                /\ UNCHANGED << heap, iteration, tool_calls_made, tc_idx, sent, exc >>
           ELSE Record(p, tc, arguments, execute(tc.name, arguments, "success"))
    /\ UNCHANGED << self_hist, cache, disk, cid, final_response, message, result,
                    backend, req, responses, ncalls, odd, direct >>

\* line 253 resumed: the backend answered the handler's query
ToolReturn(p, answer) ==
    /\ pc[p] = "await_tool"
    /\ CanRun(p)
    /\ backend' = [backend EXCEPT ![p] = answer]
    /\ LET tc        == message[p][tc_idx[p]]
           arguments == json_loads(tc.arguments)
       IN  Record(p, tc, arguments, execute(tc.name, arguments, answer))
    /\ UNCHANGED << self_hist, cache, disk, cid, final_response, message, result,
                    req, responses, ncalls, odd, direct >>

\* "if final_response:" (None and the empty text are false)
Truthy(content) == content # None /\ content # ""

\* lines 267-283: append the final answer, save the history, return
Finish(p, write) ==
    /\ pc[p] = "finish"
    /\ CanRun(p)
    /\ LET hp == IF cid[p] # NoConv /\ Truthy(final_response[p])
                 THEN [heap EXCEPT ![self_hist] =
                           Append(@, AssistantMsg(final_response[p], req[p]))]
                 ELSE heap
           s  == IF cid[p] # NoConv
                 THEN save_history(cid[p], self_hist, hp, self_hist, cache, disk, write)
                 ELSE [heap |-> heap, cache |-> cache, disk |-> disk, raised |-> FALSE]
       IN  /\ heap' = Collect(s.heap, self_hist, s.cache)
           /\ cache' = s.cache
           /\ disk' = s.disk
           /\ IF s.raised
              THEN /\ pc' = [pc EXCEPT ![p] = "raised"]
                   /\ exc' = [exc EXCEPT ![p] = "OSError"]
                   /\ UNCHANGED result
              ELSE /\ pc' = [pc EXCEPT ![p] = "done"]
                   /\ result' = [result EXCEPT ![p] =
                                   [returned |-> TRUE, analysis |-> final_response[p],
                                    iterations |-> iteration[p],
                                    tool_calls |-> tool_calls_made[p],
                                    conversation_id |-> cid[p]]]
                   /\ UNCHANGED exc
    /\ UNCHANGED << self_hist, cid, iteration, final_response, tool_calls_made,
                    message, tc_idx, backend, req, sent, responses, ncalls, odd, direct >>

-----------------------------------------------------------------------------
(* Initial states *)

\* the conversation of k earlier exchanges as analyze left it in durable storage:
\* each exchange is a user message, one plain tool turn and a final answer
RECURSIVE Prior(_)
Prior(k) ==
    IF k = 0 THEN << >>
    ELSE LET before == IF k = 1 THEN << SystemMsg >> ELSE Prior(k - 1)
             tcs    == << ToolCall(<< 0 - k, 1, 1 >>, Plain.name, Plain.arguments) >>
         IN  Trim(before \o << UserMsg(0 - k),
                               AssistantCallsMsg(None, tcs, 0 - k),
                               ToolMsg(<< 0 - k, 1, 1 >>,
                                       execute(Plain.name, json_loads(Plain.arguments), "success").value,
                                       0 - k),
                               AssistantMsg("T", 0 - k) >>)

NoExec == [tool_name |-> "", arguments |-> json_loads(ArgEmpty), answer |-> ""]
NoOutcome == [raised |-> FALSE, value |-> NoResult]

InitLocals ==
    /\ pc = [p \in Procs |-> "idle"]
    /\ cid = [p \in Procs |-> NoConv]
    /\ iteration = [p \in Procs |-> 0]
    /\ final_response = [p \in Procs |-> None]
    /\ tool_calls_made = [p \in Procs |-> << >>]
    /\ message = [p \in Procs |-> << >>]
    /\ tc_idx = [p \in Procs |-> 0]
    /\ result = [p \in Procs |-> NoReturn]
    /\ exc = [p \in Procs |-> None]
    /\ backend = [p \in Procs |-> ""]
    /\ req = [p \in Procs |-> 0]
    /\ sent = [p \in Procs |-> << >>]
    /\ responses = [p \in Procs |-> << >>]
    /\ ncalls = 0
    /\ odd = 0

\* get_history has not been called directly
NoGot == [called |-> FALSE, id |-> NoConv, history |-> << >>, tick |-> FALSE]

\* nothing has been saved directly
NeverSaved == [i \in ConvIds |-> "never"]

\* parse has not been called
NoTime == [day |-> 0, min |-> 0]
NoTimeIn == [matches |-> {},
             last |-> [amount |-> 0, unit |-> ""],
             ago  |-> [amount |-> 0, unit |-> ""],
             day  |-> [day_ref |-> "", h1 |-> 0, ap1 |-> "", h2 |-> 0, ap2 |-> ""],
             date |-> [parses |-> FALSE, date |-> 0, h1 |-> 0, m1 |-> 0, h2 |-> 0, m2 |-> 0,
                       ampm |-> ""],
             free |-> [parses |-> FALSE, at |-> NoTime],
             ref  |-> NoTime]
NoTimeOut == [returned |-> FALSE, raised |-> FALSE, start |-> NoTime, end |-> NoTime]

\* _analyze_metric_anomalies, _correlate_metrics and the query cache have not been used
NoAnomalyIn == [answer |-> "", data |-> << >>]
NoAnalysis == [returned |-> FALSE, error |-> FALSE, anomaly_analysis |-> << >>]
NoCorrelateIn == [metric_names |-> << >>, answers |-> << >>]
NoCorrelation == [returned |-> FALSE, metrics_data |-> << >>, correlations |-> << >>]
NoQuery == [key |-> -1, hit |-> FALSE, contacted |-> FALSE, raised |-> FALSE]

\* the chat endpoint and _get_current_metric_value have not been called
NoRequest == [n |-> 0, conversation_id |-> NoConv, message |-> << >>]
NoReply == [status_code |-> 0]
NoAnswer == [status |-> "", values |-> << >>]
NoCurrentIn == [tool |-> "", metric_name |-> "", response |-> NoAnswer, cached |-> FALSE]
NoCurrent == [returned |-> FALSE, raised |-> FALSE,
              payload |-> [keys |-> {}, error |-> "", details |-> NoAnswer, values |-> << >>,
                           threshold_status |-> ""],
              queries |-> 0, requests |-> 0]

\* _get_health_summary has not been called
NoSummary == [status |-> "", metrics |-> << >>, alerts |-> << >>, returned |-> FALSE]

\* no direct call of the store, of the dispatcher, of the parser or of the health summary
InitStoreDirect == store_in = << >> /\ got = NoGot /\ saved = NeverSaved
InitExecDirect == exec_in = NoExec /\ exec_out = NoOutcome
InitTimeDirect == time_in = NoTimeIn /\ time_out = NoTimeOut
InitHealthDirect == health_idx = 0 /\ health_seen = << >> /\ summary = NoSummary
InitAnomalyDirect == anom_in = NoAnomalyIn /\ anom_out = NoAnalysis
InitCorrelateDirect == corr_in = NoCorrelateIn /\ corr_out = NoCorrelation
InitGatewayDirect ==
    gw_cache = << >> /\ gw_now = 0 /\ gw_last = NoQuery /\ gw_fresh = 0 /\ gw_bursts = 0
InitChatDirect == chat_in = NoRequest /\ chat_out = NoReply
InitCurrentDirect == cur_in = NoCurrentIn /\ cur_out = NoCurrent
InitToolsDirect ==
    /\ InitAnomalyDirect
    /\ InitCorrelateDirect
    /\ InitGatewayDirect
    /\ InitChatDirect
    /\ InitCurrentDirect

InitDirect ==
    /\ InitStoreDirect
    /\ InitExecDirect
    /\ InitTimeDirect
    /\ InitHealthDirect
    /\ InitToolsDirect

\* durable storage holding k earlier exchanges of conversation "A" (none for k = 0)
Stored(k) ==
    [i \in ConvIds |-> IF i = "A" /\ k > 0 THEN [exists |-> TRUE, data |-> Prior(k), readable |-> TRUE] ELSE NoFile]

\* a process that just started, with nothing cached and nothing in durable storage
Init ==
    /\ heap = [r \in Refs |-> << >>]
    /\ self_hist = 0
    /\ cache = [i \in ConvIds |-> 0]
    /\ disk = Stored(0)
    /\ InitLocals
    /\ InitDirect

\* a process that just started, with nothing cached and up to MaxPrior earlier
\* exchanges of conversation "A" in durable storage
InitStored ==
    /\ heap = [r \in Refs |-> << >>]
    /\ self_hist = 0
    /\ cache = [i \in ConvIds |-> 0]
    /\ \E k \in 0 .. MaxPrior : disk = Stored(k)
    /\ InitLocals
    /\ InitDirect

\* One request: a single analyze call, for no conversation id or for conversation
\* "A", against a model that answers anything the menu allows.
Next ==
    \/ \E id \in {NoConv, "A"} : ncalls < 1 /\ Start(1, id)
    \/ \E content \in FinalContents : LLMFinal(1, content)
    \/ \E turn \in TurnsUpTo[MaxOdd - odd] : LLMToolCalls(1, turn)
    \/ LLMRaise(1)
    \/ ToolStep(1)
    \/ \E answer \in BackendOutcomes : ToolReturn(1, answer)
    \/ Finish(1, "written")

Spec == Init /\ [][Next]_vars

\* Requests served one after the other: up to MaxCalls analyze calls, each for no
\* conversation id or for conversation "A", against a model that asks for one
\* plain tool call per turn until it answers, fails, or the ceiling is reached.
NextSeq ==
    \/ \E id \in {NoConv, "A"} : ncalls < MaxCalls /\ Start(1, id)
    \/ \E content \in FinalContents : LLMFinal(1, content)
    \/ LLMToolCalls(1, << Plain >>)
    \/ LLMRaise(1)
    \/ ToolStep(1)
    \/ Finish(1, "written")

SpecSeq == InitStored /\ [][NextSeq]_vars

\* Requests served one after the other, as in NextSeq, over durable storage
\* whose writes may fail.
NextFail ==
    \/ \E id \in {NoConv, "A"} : ncalls < MaxCalls /\ Start(1, id)
    \/ \E content \in FinalContents : LLMFinal(1, content)
    \/ LLMToolCalls(1, << Plain >>)
    \/ LLMRaise(1)
    \/ ToolStep(1)
    \/ \E write \in WriteOutcomes : Finish(1, write)

SpecFail == InitStored /\ [][NextFail]_vars

-----------------------------------------------------------------------------
(* Two requests at once *)

\* the conversation each of the two concurrent requests is for
ConvOf(p) == IF p = 1 THEN "A" ELSE "B"

\* the model turns that asked for tool calls, over both requests
ToolTurns ==
    Cardinality({ << p, i >> \in Procs \X (1 .. max_iterations) :
                      i <= Len(responses[p]) /\ responses[p][i].calls > 0 })

\* Two analyze calls on the one agent (main.py keeps a single global agent), for
\* conversations "A" and "B", interleaved at their awaits; each of the at most
\* MaxTurns model turns that ask for tools asks for one tool call, with or
\* without a backend query.
NextConc ==
    \/ \E p \in Procs : req[p] = 0 /\ Start(p, ConvOf(p))
    \/ \E p \in Procs : LLMFinal(p, "T")
    \/ \E p \in Procs : \E turn \in TurnsUpTo[MaxOdd - odd] :
           ToolTurns < MaxTurns /\ Len(turn) = 1 /\ LLMToolCalls(p, turn)
    \/ \E p \in Procs : ToolStep(p)
    \/ \E p \in Procs : ToolReturn(p, "success")
    \/ \E p \in Procs : Finish(p, "written")

SpecConc == InitStored /\ [][NextConc]_vars

-----------------------------------------------------------------------------
(* The Conversation Store called directly *)

\* a history of length n for save_history: it leads with the system message or
\* with a user message, and position d (if any) holds a copy of the system message
Drawn(n, lead, d) ==
    [i \in 1 .. n |->
        IF (i = 1 /\ lead) \/ (i > 1 /\ i = d) THEN SystemMsg
        ELSE IF i % 2 = 0 THEN UserMsg(i) ELSE AssistantMsg("T", i)]

\* the copy, if any, is where the last max_history messages begin, one later, or last
DrawnHistories ==
    UNION { { Drawn(n, lead, d) : d \in {0, n - max_history + 1, n - max_history + 2, n} } :
              n \in 0 .. (max_history + 1 + MaxExtra), lead \in BOOLEAN }

\* a process that just started, and a history for save_history
InitStore ==
    /\ heap = [r \in Refs |-> << >>]
    /\ self_hist = 0
    /\ cache = [i \in ConvIds |-> 0]
    /\ disk = Stored(0)
    /\ InitLocals
    /\ store_in \in DrawnHistories
    /\ got = NoGot
    /\ saved = NeverSaved
    /\ InitExecDirect
    /\ InitTimeDirect
    /\ InitHealthDirect
    /\ InitToolsDirect

\* the variables of analyze calls, which direct calls leave alone
locals == << pc, cid, iteration, final_response, tool_calls_made, message, tc_idx,
             result, exc, backend, req, sent, responses, ncalls, odd >>

\* history_manager.save_history(id, history), called with a list of the caller's
\* that holds store_in
SaveHistory(id, write) ==
    /\ LET h  == FreshRef(Roots(self_hist, cache))
           hp == [heap EXCEPT ![h] = store_in]
           s  == save_history(id, h, hp, self_hist, cache, disk, write)
       IN  /\ heap' = Collect(s.heap, self_hist, s.cache)
           /\ cache' = s.cache
           /\ disk' = s.disk
    /\ saved' = [saved EXCEPT ![id] = "saved"]
    /\ UNCHANGED << self_hist, locals, store_in, got, exec_direct, time_direct, health_direct, tools_direct >>

\* history_manager.get_history(id)
GetHistory(id) ==
    /\ LET g == get_history(id, heap, self_hist, cache, disk)
       IN  /\ heap' = g.heap
           /\ cache' = g.cache
           /\ got' = [called |-> TRUE, id |-> id,
                      history |-> IF g.ref = 0 THEN << >> ELSE g.heap[g.ref],
                      tick |-> ~got.tick]
    /\ UNCHANGED << self_hist, disk, locals, store_in, saved, exec_direct, time_direct,
                    health_direct, tools_direct >>

\* history_manager.clear_history(id)
ClearHistory(id) ==
    /\ LET c == clear_history(id, cache, disk)
       IN  /\ cache' = c.cache
           /\ disk' = c.disk
           /\ heap' = Collect(heap, self_hist, c.cache)
    /\ saved' = [saved EXCEPT ![id] = IF @ = "never" THEN "never" ELSE "cleared"]
    /\ UNCHANGED << self_hist, locals, store_in, got, exec_direct, time_direct, health_direct, tools_direct >>

\* the process ends and a new one starts: HistoryManager.__init__ begins with an
\* empty cache over the same storage directory
Restart ==
    /\ cache' = [i \in ConvIds |-> 0]
    /\ heap' = [r \in Refs |-> << >>]
    /\ UNCHANGED << self_hist, disk, locals, direct >>

\* The Conversation Store used directly: saves of one drawn history whose write
\* may fail, reads, clears and restarts of the process, in any order.
NextStore ==
    \/ \E id \in ConvIds : \E write \in WriteOutcomes : SaveHistory(id, write)
    \/ \E id \in ConvIds : GetHistory(id)
    \/ \E id \in ConvIds : ClearHistory(id)
    \/ Restart

SpecStore == InitStore /\ [][NextStore]_vars

-----------------------------------------------------------------------------
(* The dispatcher called directly *)

\* tool names for execute: the registered ones and two that are not
ExecNames == Handlers \cup {"run_sql", ""}

\* key sets of argument mappings: for every handler its required keys, those and
\* its defaulted keys, those and an unexpected key, and those less one
ExecKeySets ==
    UNION { { Required(h), Required(h) \cup Defaulted(h), Required(h) \cup {"bogus"} }
            \cup { Required(h) \ {k} : k \in Required(h) } : h \in Handlers }

ExecArguments ==
    { [ok |-> TRUE, kind |-> "dict", keys |-> ks, metric |-> m] :
          ks \in ExecKeySets, m \in {"cpu_utilization", "no_such_metric"} }
    \cup { json_loads(ArgList) }

\* a process that just started, and a tool name, an argument mapping and a
\* backend behaviour for execute
InitExec ==
    /\ heap = [r \in Refs |-> << >>]
    /\ self_hist = 0
    /\ cache = [i \in ConvIds |-> 0]
    /\ disk = Stored(0)
    /\ InitLocals
    /\ InitStoreDirect
    /\ exec_in \in [tool_name : ExecNames, arguments : ExecArguments, answer : BackendOutcomes]
    /\ exec_out = NoOutcome
    /\ InitTimeDirect
    /\ InitHealthDirect
    /\ InitToolsDirect

\* await tool_executor.execute(tool_name, arguments), as list_metrics and
\* get_quick_health call it
Execute ==
    /\ exec_out = NoOutcome
    /\ exec_out' = execute(exec_in.tool_name, exec_in.arguments, exec_in.answer)
    /\ UNCHANGED << heap, self_hist, cache, disk, locals, store_direct, exec_in,
                    time_direct, health_direct, tools_direct >>

NextExec == Execute

SpecExec == InitExec /\ [][NextExec]_vars

-----------------------------------------------------------------------------
(* ToolExecutor._get_health_summary *)

\* PromQLBuilder.get_health_check_metrics()
HealthMetrics == << "connection_utilization", "buffer_cache_hit_ratio",
                    "transaction_wraparound", "waiting_locks", "backend_writes",
                    "dead_tuples", "cpu_utilization", "memory_utilization", "cpu_load1" >>

\* threshold_warning and threshold_critical of the catalog entries (0 = None)
Thresholds(name) ==
    CASE name = "connection_utilization" -> [warning |-> 80, critical |-> 95]
      [] name = "buffer_cache_hit_ratio" -> [warning |-> 95, critical |-> 90]
      [] name = "transaction_wraparound" -> [warning |-> 500000000, critical |-> 1000000000]
      [] name = "waiting_locks"          -> [warning |-> 5, critical |-> 20]
      [] name = "backend_writes"         -> [warning |-> 100, critical |-> 500]
      [] name = "dead_tuples"            -> [warning |-> 10000, critical |-> 100000]
      [] name = "cpu_utilization"        -> [warning |-> 70, critical |-> 90]
      [] name = "memory_utilization"     -> [warning |-> 80, critical |-> 95]
      [] name = "cpu_load1"              -> [warning |-> 0, critical |-> 0]
      [] name = "active_connections"     -> [warning |-> 80, critical |-> 95]
      [] name = "total_connections"      -> [warning |-> 80, critical |-> 95]
      [] name = "replication_lag"        -> [warning |-> 30, critical |-> 120]
      [] name = "cpu_utilization_iowait" -> [warning |-> 10, critical |-> 25]
      [] OTHER                           -> [warning |-> 0, critical |-> 0]

\* sample values the backend reports for a metric: none (0 is also what a NaN or
\* a zero counts as: a false value), its warning threshold, its critical threshold
Samples(name) == {0, Thresholds(name).warning, Thresholds(name).critical}

\* _get_current_metric_value, lines 355-363, for one reported value v
threshold_status(name, v) ==
    LET t == Thresholds(name)
    IN  IF t.critical # 0
        THEN IF v # 0 /\ v >= t.critical THEN "critical"
             ELSE IF v # 0 /\ t.warning # 0 /\ v >= t.warning THEN "warning"
             ELSE "normal"
        ELSE "normal"

\* what _get_current_metric_value came back as, for the summary: "error" for a
\* backend status that is not success, the threshold status otherwise
CurrentStatus(name, answer, v) ==
    IF answer = "success" THEN threshold_status(name, v) ELSE "error"

Alert(level, name) == [level |-> level, metric |-> name]

\* a loop body whose warning branch does not look at the status reached so far
Escalate_overwrites(sm, name, status) ==
    IF status = "error" THEN sm
    ELSE LET m == [sm EXCEPT !.metrics = Append(@, name)]
         IN  IF status = "critical"
             THEN [m EXCEPT !.status = "critical", !.alerts = Append(@, Alert("CRITICAL", name))]
             ELSE IF status = "warning"
             THEN [m EXCEPT !.status = "warning", !.alerts = Append(@, Alert("WARNING", name))]
             ELSE m

\* lines 456-463: the loop body for one metric whose result has the given status
Escalate(sm, name, status) ==
    IF status = "error" THEN sm
    ELSE LET m == [sm EXCEPT !.metrics = Append(@, name)]
         IN  IF status = "critical"
             THEN [m EXCEPT !.status = "critical", !.alerts = Append(@, Alert("CRITICAL", name))]
             ELSE IF status = "warning" /\ sm.status = "healthy"
             THEN [m EXCEPT !.status = "warning", !.alerts = Append(@, Alert("WARNING", name))]
             ELSE m

\* the variables the health summary leaves alone
not_health == << heap, self_hist, cache, disk, locals, store_direct, exec_direct, time_direct,
                tools_direct >>

\* lines 451-452: the summary begins healthy and empty
HealthStart ==
    /\ summary = NoSummary
    /\ summary' = [status |-> "healthy", metrics |-> << >>, alerts |-> << >>,
                   returned |-> FALSE]
    /\ UNCHANGED << health_idx, health_seen, not_health >>

\* lines 454-463: the next health-check metric is queried and taken into the summary
HealthStep(answer, v) ==
    /\ summary # NoSummary
    /\ ~summary.returned
    /\ health_idx < Len(HealthMetrics)
    /\ LET name   == HealthMetrics[health_idx + 1]
           status == CurrentStatus(name, answer, v)
       IN  /\ v \in Samples(name)
           /\ summary' = Escalate(summary, name, status)
           /\ health_seen' = Append(health_seen, status)
    /\ health_idx' = health_idx + 1
    /\ UNCHANGED not_health

\* line 465
HealthReturn ==
    /\ summary # NoSummary
    /\ ~summary.returned
    /\ health_idx = Len(HealthMetrics)
    /\ summary' = [summary EXCEPT !.returned = TRUE]
    /\ UNCHANGED << health_idx, health_seen, not_health >>

\* One health summary, over a backend that answers each query with a value or
\* with a status that is not success.
NextHealth ==
    \/ HealthStart
    \/ \E answer \in {"success", "failure"} :
           \E v \in UNION { Samples(HealthMetrics[i]) : i \in 1 .. Len(HealthMetrics) } :
               HealthStep(answer, v)
    \/ HealthReturn

SpecHealth == Init /\ [][NextHealth]_vars

-----------------------------------------------------------------------------
(* TimeRangeParser.parse *)

\* A datetime is a day (counted from 1970-01-01) and a minute of that day; the
\* timestamp of a datetime grows with the pair.
DateTime(day, min) == [day |-> day, min |-> min]

\* dt + relativedelta(minutes = n), n of either sign
Shift(dt, n) ==
    LET total == dt.min + n
    IN  DateTime(dt.day + (total \div 1440), total % 1440)

\* dt - relativedelta(<unit>s = amount)
Minus(dt, amount, unit) ==
    CASE unit = "minute" -> Shift(dt, 0 - amount)
      [] unit = "hour"   -> Shift(dt, 0 - amount * 60)
      [] unit = "day"    -> DateTime(dt.day - amount, dt.min)
      [] unit = "week"   -> DateTime(dt.day - amount * 7, dt.min)

\* datetime.min .. datetime.max, outside of which datetime arithmetic raises
InRange(dt) == dt.day >= -719162 /\ dt.day <= 2932896

Before(a, b) == a.day < b.day \/ (a.day = b.day /\ a.min <= b.min)

Returned(start, end) == [returned |-> TRUE, raised |-> FALSE, start |-> start, end |-> end]
Raised == [returned |-> FALSE, raised |-> TRUE, start |-> NoTime, end |-> NoTime]

\* datetime.min.time().replace(hour = h, minute = m) raises ValueError outside these
ValidTime(h, m) == h \in 0 .. 23 /\ m \in 0 .. 59

\* "Handle AM/PM": an hour marked pm and below 12 moves to the afternoon
Afternoon(h, ampm) == IF ampm = "pm" /\ h < 12 THEN h + 12 ELSE h

\* lines 36-54: "last <amount> <unit>s"
parse_last(c, ref) ==
    LET start == Minus(ref, c.amount, c.unit)
    IN  IF InRange(start) THEN Returned(start, ref) ELSE Raised

\* lines 57-71: "<amount> <unit>s ago", a ten-minute window around that time
parse_ago(c, ref) ==
    LET center == Minus(ref, c.amount, c.unit)
    IN  IF InRange(center) /\ InRange(Shift(center, -5)) /\ InRange(Shift(center, 5))
        THEN Returned(Shift(center, -5), Shift(center, 5))
        ELSE Raised

\* lines 73-97: "today|yesterday H[am|pm] to H[am|pm]"
parse_day(c, ref) ==
    LET base == IF c.day_ref = "yesterday" THEN ref.day - 1 ELSE ref.day
        sh   == Afternoon(c.h1, c.ap1)
        eh   == Afternoon(c.h2, c.ap2)
    IN  IF ValidTime(sh, 0) /\ ValidTime(eh, 0)
        THEN Returned(DateTime(base, sh * 60), DateTime(base, eh * 60))
        ELSE Raised

\* lines 99-126: "<Month> <Day> <Year>, H[:MM]-H[:MM] [AM|PM]"; one marker serves
\* both hours, and a date that does not parse is replaced by the reference date
parse_date(c, ref) ==
    LET base == IF c.parses THEN c.date ELSE ref.day
        sh   == Afternoon(c.h1, c.ampm)
        eh   == Afternoon(c.h2, c.ampm)
    IN  IF ValidTime(sh, c.m1) /\ ValidTime(eh, c.m2)
        THEN Returned(DateTime(base, sh * 60 + c.m1), DateTime(base, eh * 60 + c.m2))
        ELSE Raised

\* a free-form fallback whose window is half an hour long
parse_other_half_window(c, ref) ==
    IF c.parses /\ InRange(Shift(c.at, -30)) /\ InRange(Shift(c.at, 30))
    THEN Returned(Shift(c.at, -30), c.at)
    ELSE Returned(Shift(ref, -30), ref)

\* lines 129-137: an hour around the instant the free-form parser finds; the last
\* hour before the reference time when it finds nothing, or when the window
\* around the instant cannot be computed (the exception is swallowed, line 133)
parse_other(c, ref) ==
    IF c.parses /\ InRange(Shift(c.at, -30)) /\ InRange(Shift(c.at, 30))
    THEN Returned(Shift(c.at, -30), Shift(c.at, 30))
    ELSE Returned(Shift(ref, -60), ref)

\* parse(time_expression, reference_time), on what the patterns capture: the
\* patterns are tried in this order and the first that matches returns
parse(e) ==
    IF "last" \in e.matches THEN parse_last(e.last, e.ref)
    ELSE IF "ago" \in e.matches THEN parse_ago(e.ago, e.ref)
    ELSE IF "day" \in e.matches THEN parse_day(e.day, e.ref)
    ELSE IF "date" \in e.matches THEN parse_date(e.date, e.ref)
    ELSE parse_other(e.free, e.ref)

\* captured amounts, hours (two digits at most), minutes (two digits) and markers
Amounts == {0, 2, 30, 800000}
Hours == {0, 9, 11, 12, 23, 25}
Minutes == {0, 30, 75}
Markers == {"", "am", "pm"}
\* reference times: just after midnight and mid-morning of 2025-11-01
RefTimes == {DateTime(20393, 5), DateTime(20393, 600)}
\* the day a date string names: 2026-01-25
ParsedDays == {20478}
\* instants the free-form parser finds: 2026-01-25 00:00 and 10:00, 9999-12-31 23:45
FreeInstants == {DateTime(20478, 0), DateTime(20478, 600), DateTime(2932896, 1425)}

LastCaptures == [amount : Amounts, unit : {"minute", "hour", "day", "week"}]
AgoCaptures == [amount : Amounts, unit : {"minute", "hour", "day"}]
DayCaptures == [day_ref : {"today", "yesterday"}, h1 : Hours, ap1 : Markers,
                h2 : Hours, ap2 : Markers]
DateCaptures ==
    { [parses |-> b, date |-> IF b THEN d ELSE 0, h1 |-> h[1], m1 |-> m[1],
       h2 |-> h[2], m2 |-> m[2], ampm |-> ap] :
          b \in BOOLEAN, d \in ParsedDays, h \in Hours \X Hours,
          m \in Minutes \X Minutes, ap \in Markers }
FreeCaptures == { [parses |-> TRUE, at |-> p] : p \in FreeInstants } \cup { NoTimeIn.free }

\* one capture of each pattern, for the expressions that several patterns match
OneLast == [amount |-> 30, unit |-> "minute"]
OneAgo == [amount |-> 2, unit |-> "hour"]
OneDay == [day_ref |-> "yesterday", h1 |-> 9, ap1 |-> "am", h2 |-> 11, ap2 |-> "am"]
OneDate == [parses |-> TRUE, date |-> 20478, h1 |-> 9, m1 |-> 0, h2 |-> 11, m2 |-> 30,
            ampm |-> "pm"]

\* the expressions, by the patterns that match them and what these capture
Expressions ==
    UNION {
      { [NoTimeIn EXCEPT !.matches = {"last"}, !.last = c] : c \in LastCaptures },
      { [NoTimeIn EXCEPT !.matches = {"ago"}, !.ago = c] : c \in AgoCaptures },
      { [NoTimeIn EXCEPT !.matches = {"day"}, !.day = c] : c \in DayCaptures },
      { [NoTimeIn EXCEPT !.matches = {"date"}, !.date = c] : c \in DateCaptures },
      { [NoTimeIn EXCEPT !.free = c] : c \in FreeCaptures },
      { [NoTimeIn EXCEPT !.matches = m,
                         !.last = IF "last" \in m THEN OneLast ELSE @,
                         !.ago  = IF "ago" \in m THEN OneAgo ELSE @,
                         !.day  = IF "day" \in m THEN OneDay ELSE @,
                         !.date = IF "date" \in m THEN OneDate ELSE @,
                         !.free = c] :
            m \in { x \in SUBSET {"last", "ago", "day", "date"} : Cardinality(x) >= 2 },
            c \in FreeCaptures } }

InitTime ==
    /\ heap = [r \in Refs |-> << >>]
    /\ self_hist = 0
    /\ cache = [i \in ConvIds |-> 0]
    /\ disk = Stored(0)
    /\ InitLocals
    /\ InitStoreDirect
    /\ InitExecDirect
    /\ \E e \in Expressions, r \in RefTimes : time_in = [e EXCEPT !.ref = r]
    /\ time_out = NoTimeOut
    /\ InitHealthDirect
    /\ InitToolsDirect

\* TimeRangeParser.parse(time_expression, reference_time)
Parse ==
    /\ time_out = NoTimeOut
    /\ time_out' = parse(time_in)
    /\ UNCHANGED << heap, self_hist, cache, disk, locals, store_direct, exec_direct,
                    time_in, health_direct, tools_direct >>

NextTime == Parse

SpecTime == InitTime /\ [][NextTime]_vars

-----------------------------------------------------------------------------
(* ToolExecutor._analyze_metric_anomalies *)

\* A sample of a backend series is the text "NaN" or the text of a number; its
\* timestamp is its position in the series.
NaN == [nan |-> TRUE, number |-> 0]
Number(x) == [nan |-> FALSE, number |-> x]

\* a value that treats "NaN" as the number 0
to_value_zero(raw) == [none |-> FALSE, value |-> raw.number]

\* _query_prometheus_metric, line 326: float(v[1]) if v[1] != "NaN" else None
to_value(raw) == [none |-> raw.nan, value |-> raw.number]

\* _query_prometheus_metric, lines 320-326: the values of one series
processed(series) ==
    [i \in 1 .. Len(series) |-> [time |-> i] @@ to_value(series[i])]

IsPresent(v) == ~v.none

\* line 394: the values of the series that are not None
present(values) ==
    LET kept == SelectSeq(values, IsPresent)
    IN  [i \in 1 .. Len(kept) |-> kept[i].value]

\* sum(xs), added up by halves
RECURSIVE Sum(_)
Sum(xs) ==
    IF xs = << >> THEN 0
    ELSE IF Len(xs) = 1 THEN xs[1]
    ELSE LET half == Len(xs) \div 2
         IN  Sum(SubSeq(xs, 1, half)) + Sum(SubSeq(xs, half + 1, Len(xs)))

\* max(xs) and min(xs) of a list that is not empty
MaxOf(xs) ==
    CHOOSE m \in { xs[i] : i \in 1 .. Len(xs) } : \A i \in 1 .. Len(xs) : m >= xs[i]

MinOf(xs) ==
    CHOOSE m \in { xs[i] : i \in 1 .. Len(xs) } : \A i \in 1 .. Len(xs) : m <= xs[i]

\* The statistics of lines 399-406 in whole numbers: with n values of sum S,
\* avg = S / n and std_dev = sqrt(Q / n^3), where Q is the sum of (n x - S)^2.
SqDev(xs) ==
    LET n == Len(xs)
        S == Sum(xs)
    IN  Sum([i \in 1 .. n |-> (n * xs[i] - S) * (n * xs[i] - S)])

\* a > 2 sqrt(Q / n), the form every comparison against 2 std_dev takes
Beyond(a, Q, n) == a > 0 /\ a * a * n > 4 * Q

\* a high threshold that a value on it already exceeds
AboveHigh_inclusive(v, xs) ==
    LET a == Len(xs) * v - Sum(xs)
    IN  a > 0 /\ a * a * Len(xs) >= 4 * SqDev(xs)

\* line 409 and 415: v > threshold_high = avg + 2 std_dev
AboveHigh(v, xs) == Beyond(Len(xs) * v - Sum(xs), SqDev(xs), Len(xs))

\* line 410 and 421: v < threshold_low, which is avg - 2 std_dev if that is
\* positive and 0 otherwise
BelowLow(v, xs) ==
    IF Beyond(Sum(xs), SqDev(xs), Len(xs))
    THEN Beyond(Sum(xs) - Len(xs) * v, SqDev(xs), Len(xs))
    ELSE v < 0

\* lines 419 and 425: a deviation a / (n std_dev), and 0 when std_dev is 0
ZeroDeviation == [num |-> 0, sqdev |-> 1, count |-> 1]
Deviation(a, xs) ==
    IF SqDev(xs) > 0 THEN [num |-> a, sqdev |-> SqDev(xs), count |-> Len(xs)]
    ELSE ZeroDeviation

Anomaly(v, a, xs) == [timestamp |-> v.time, value |-> v.value, deviation |-> Deviation(a, xs)]

\* lines 412-426: the spikes, in series order
Spikes(values, xs) ==
    LET flagged == SelectSeq(values, LAMBDA v : ~v.none /\ AboveHigh(v.value, xs))
    IN  [i \in 1 .. Len(flagged) |->
            Anomaly(flagged[i], Len(xs) * flagged[i].value - Sum(xs), xs)]

\* lines 412-426: the drops, in series order; a value above the high threshold
\* is never looked at as a drop (elif)
Drops(values, xs) ==
    LET flagged == SelectSeq(values, LAMBDA v : ~v.none /\ ~AboveHigh(v.value, xs)
                                                        /\ BelowLow(v.value, xs))
    IN  [i \in 1 .. Len(flagged) |->
            Anomaly(flagged[i], Sum(xs) - Len(xs) * flagged[i].value, xs)]

\* spikes[:10] and drops[:10]
First10(xs) == IF Len(xs) > 10 THEN SubSeq(xs, 1, 10) ELSE xs

\* lines 428-439: the report entry of one series with values
Entry(values) ==
    LET xs == present(values)
    IN  [statistics |-> [count |-> Len(xs), sum |-> Sum(xs), max |-> MaxOf(xs),
                         min |-> MinOf(xs), sqdev |-> SqDev(xs)],
         spikes |-> First10(Spikes(values, xs)),
         drops |-> First10(Drops(values, xs)),
         has_anomalies |-> Len(Spikes(values, xs)) > 0 \/ Len(Drops(values, xs)) > 0]

\* lines 392-439: one entry per series that has a value; a series without one
\* is skipped (line 396)
RECURSIVE analyze_series(_)
analyze_series(data) ==
    IF data = << >> THEN << >>
    ELSE LET values == processed(Head(data))
         IN  (IF present(values) = << >> THEN << >> ELSE << Entry(values) >>)
             \o analyze_series(Tail(data))

\* _analyze_metric_anomalies for a known metric, on the backend's answer
analyze_metric_anomalies(in) ==
    IF in.answer # "success"
    THEN [returned |-> TRUE, error |-> TRUE, anomaly_analysis |-> << >>]
    ELSE [returned |-> TRUE, error |-> FALSE, anomaly_analysis |-> analyze_series(in.data)]

\* the samples a backend series is drawn from
RawSamples == {NaN, Number(-100), Number(-1), Number(0), Number(1), Number(100)}

SeriesUpTo(n) == UNION { [1 .. k -> RawSamples] : k \in 0 .. n }

\* the backend's answers: one series of up to MaxSamples samples, two short
\* series, no series, or a status that is not success
AnomalyInputs(n) ==
    { [answer |-> "success", data |-> << s >>] : s \in SeriesUpTo(n) }
    \cup { [answer |-> "success", data |-> << s, t >>] : s \in SeriesUpTo(1), t \in SeriesUpTo(1) }
    \cup { [answer |-> "success", data |-> << >>], [answer |-> "failure", data |-> << >>] }

InitAnomaly ==
    /\ heap = [r \in Refs |-> << >>]
    /\ self_hist = 0
    /\ cache = [i \in ConvIds |-> 0]
    /\ disk = Stored(0)
    /\ InitLocals
    /\ InitStoreDirect
    /\ InitExecDirect
    /\ InitTimeDirect
    /\ InitHealthDirect
    /\ anom_in \in AnomalyInputs(MaxSamples)
    /\ anom_out = NoAnalysis
    /\ InitCorrelateDirect
    /\ InitGatewayDirect
    /\ InitChatDirect
    /\ InitCurrentDirect

\* await self._analyze_metric_anomalies(metric_name, start_timestamp, end_timestamp)
AnalyzeAnomalies ==
    /\ anom_out = NoAnalysis
    /\ anom_out' = analyze_metric_anomalies(anom_in)
    /\ UNCHANGED << heap, self_hist, cache, disk, locals, store_direct, exec_direct,
                    time_direct, health_direct, anom_in, correlate_direct, gateway_direct,
                    chat_direct, current_direct >>

NextAnomaly == AnalyzeAnomalies

SpecAnomaly == InitAnomaly /\ [][NextAnomaly]_vars

\* Long series: Plateau samples of one value with Dips lower samples, each 1 but
\* for up to MaxZeros of them, which are 0, after them or before them.
Plateau == 49
Dips == 11
MaxZeros == 2
PlateauValue == 10

Repeat(x, n) == [i \in 1 .. n |-> x]

LongSeries(dips) ==
    UNION { { Repeat(Number(PlateauValue), Plateau) \o [i \in 1 .. dips |-> Number(low[i])],
              [i \in 1 .. dips |-> Number(low[i])] \o Repeat(Number(PlateauValue), Plateau) } :
            low \in { l \in [1 .. dips -> {0, 1}] :
                          Cardinality({ i \in 1 .. dips : l[i] = 0 }) <= MaxZeros } }

InitAnomalyLong ==
    /\ heap = [r \in Refs |-> << >>]
    /\ self_hist = 0
    /\ cache = [i \in ConvIds |-> 0]
    /\ disk = Stored(0)
    /\ InitLocals
    /\ InitStoreDirect
    /\ InitExecDirect
    /\ InitTimeDirect
    /\ InitHealthDirect
    /\ anom_in \in { [answer |-> "success", data |-> << s >>] : s \in LongSeries(Dips) }
    /\ anom_out = NoAnalysis
    /\ InitCorrelateDirect
    /\ InitGatewayDirect
    /\ InitChatDirect
    /\ InitCurrentDirect

SpecAnomalyLong == InitAnomalyLong /\ [][NextAnomaly]_vars

-----------------------------------------------------------------------------
(* ToolExecutor._correlate_metrics *)

\* The backend's answer to the range query of a metric: "failure" for a status
\* that is not success, or the series it returns, each given by the number of
\* its values.
QueryFailed == [status |-> "failure", series |-> << >>]
SeriesAnswers ==
    { [status |-> "success", series |-> c] : c \in { << >>, << 0 >>, << 2 >>, << 3 >>, << 0, 3 >> } }

\* _query_prometheus_metric: an error for an unknown metric or a failed query,
\* the processed series otherwise
query_prometheus_metric(name, answers) ==
    IF ~KnownMetric(name) THEN [error |-> TRUE, series |-> << >>]
    ELSE IF answers[name].status # "success" THEN [error |-> TRUE, series |-> << >>]
    ELSE [error |-> FALSE, series |-> answers[name].series]

\* lines 474-480: the names whose query gave no error, in the order in which the
\* results mapping first got them
RECURSIVE Retrieved(_, _)
Retrieved(names, answers) ==
    IF names = << >> THEN << >>
    ELSE LET init == Retrieved(SubSeq(names, 1, Len(names) - 1), answers)
             name == names[Len(names)]
         IN  IF query_prometheus_metric(name, answers).error
                \/ \E k \in 1 .. Len(init) : init[k] = name
             THEN init
             ELSE Append(init, name)

\* lines 488-489: the number of values of the metric's first series, 0 without series
values_of(name, answers) ==
    LET series == query_prometheus_metric(name, answers).series
    IN  IF series # << >> THEN series[1] ELSE 0

Min(a, b) == IF a <= b THEN a ELSE b

\* lines 485-495: the pairs of metric_list[i], metric_list[j], i < j, in loop order
RECURSIVE Pairs(_, _, _, _)
Pairs(list, i, j, answers) ==
    IF i > Len(list) THEN << >>
    ELSE IF j > Len(list) THEN Pairs(list, i + 1, i + 2, answers)
    ELSE (IF values_of(list[i], answers) > 0 /\ values_of(list[j], answers) > 0
          THEN << [metrics |-> << list[i], list[j] >>,
                   data_points |-> Min(values_of(list[i], answers),
                                       values_of(list[j], answers))] >>
          ELSE << >>) \o Pairs(list, i, j + 1, answers)

\* _correlate_metrics(metric_names, start_timestamp, end_timestamp)
correlate_metrics(in) ==
    LET metric_list == Retrieved(in.metric_names, in.answers)
    IN  [returned |-> TRUE, metrics_data |-> metric_list,
         correlations |-> Pairs(metric_list, 1, 2, in.answers)]

CorrelateNames == {"cpu_utilization", "waiting_locks", "dead_tuples", "no_such_metric"}

CorrelateInputs ==
    [metric_names : UNION { [1 .. k -> CorrelateNames] : k \in 0 .. MaxMetrics },
     answers : [{ n \in CorrelateNames : KnownMetric(n) } -> SeriesAnswers \cup {QueryFailed}]]

InitCorrelate ==
    /\ heap = [r \in Refs |-> << >>]
    /\ self_hist = 0
    /\ cache = [i \in ConvIds |-> 0]
    /\ disk = Stored(0)
    /\ InitLocals
    /\ InitStoreDirect
    /\ InitExecDirect
    /\ InitTimeDirect
    /\ InitHealthDirect
    /\ InitAnomalyDirect
    /\ corr_in \in CorrelateInputs
    /\ corr_out = NoCorrelation
    /\ InitGatewayDirect
    /\ InitChatDirect
    /\ InitCurrentDirect

\* await self._correlate_metrics(metric_names, start_timestamp, end_timestamp)
Correlate ==
    /\ corr_out = NoCorrelation
    /\ corr_out' = correlate_metrics(corr_in)
    /\ UNCHANGED << heap, self_hist, cache, disk, locals, store_direct, exec_direct,
                    time_direct, health_direct, anomaly_direct, corr_in, gateway_direct,
                    chat_direct, current_direct >>

NextCorrelate == Correlate

SpecCorrelate == InitCorrelate /\ [][NextCorrelate]_vars

-----------------------------------------------------------------------------
(* PrometheusClient: query_instant and query_range over the TTL cache *)

\* A cache key is the text of a query ("instant:<query>" or
\* "range:<query>:<start>:<end>:<step>"); the keys are numbered here, 0 being the
\* query that gets repeated. An entry is a key and the time it expires at; the
\* cache lists its entries from the least to the most recently used.
TrackedKey == 0

\* cache_key in self.cache: an entry for the key that has not expired
contains(c, key, now) == \E i \in 1 .. Len(c) : c[i].key = key /\ now < c[i].expires

\* self.cache[cache_key], for a key the cache contains: the entry becomes the
\* most recently used one
getitem(c, key) ==
    LET i    == CHOOSE i \in 1 .. Len(c) : c[i].key = key
        rest == [k \in 1 .. Len(c) - 1 |-> IF k < i THEN c[k] ELSE c[k + 1]]
    IN  Append(rest, c[i])

\* the entries left once the expired ones are removed
expire(c, now) ==
    LET Live(e) == now < e.expires
    IN  SelectSeq(c, Live)

\* self.cache[cache_key] = result, for a key the cache does not contain: expired
\* entries are removed, then the least recently used entry if the cache is
\* full, and the new entry expires ttl from now
setitem(c, key, now) ==
    LET live == expire(c, now)
        room == IF Len(live) >= maxsize THEN Tail(live) ELSE live
    IN  Append(room, [key |-> key, expires |-> now + ttl])

\* query_instant / query_range: answered from the cache, or by the backend, whose
\* answer is stored unless the response is an HTTP error (raise_for_status)
query(c, key, response, now) ==
    IF contains(c, key, now)
    THEN [cache |-> getitem(c, key),
          last  |-> [key |-> key, hit |-> TRUE, contacted |-> FALSE, raised |-> FALSE]]
    ELSE IF response = "http_error"
    THEN [cache |-> c,
          last  |-> [key |-> key, hit |-> FALSE, contacted |-> TRUE, raised |-> TRUE]]
    ELSE [cache |-> setitem(c, key, now),
          last  |-> [key |-> key, hit |-> FALSE, contacted |-> TRUE, raised |-> FALSE]]

not_gateway == << heap, self_hist, cache, disk, locals, store_direct, exec_direct,
                  time_direct, health_direct, anomaly_direct, correlate_direct,
                  chat_direct, current_direct >>

\* the query that gets repeated
QueryTracked(response) ==
    /\ gw_cache' = query(gw_cache, TrackedKey, response, gw_now).cache
    /\ gw_last' = query(gw_cache, TrackedKey, response, gw_now).last
    /\ UNCHANGED << gw_now, gw_fresh, gw_bursts, not_gateway >>

\* n queries never issued before, one after the other at one time, each answered
\* by the backend: n times setitem, which leaves the most recently used maxsize
\* of the live and the new entries
others(c, first, n, now) ==
    LET all == expire(c, now) \o [k \in 1 .. n |-> [key |-> first + k - 1, expires |-> now + ttl]]
    IN  [cache |-> IF Len(all) > maxsize THEN LastN(all, maxsize) ELSE all,
         last  |-> [key |-> first + n - 1, hit |-> FALSE, contacted |-> TRUE, raised |-> FALSE]]

\* the lengths of the runs of other queries
Bursts == {1, 2, maxsize - 1, maxsize}

QueryOthers(n) ==
    /\ gw_bursts < MaxBursts
    /\ gw_cache' = others(gw_cache, gw_fresh + 1, n, gw_now).cache
    /\ gw_last' = others(gw_cache, gw_fresh + 1, n, gw_now).last
    /\ gw_fresh' = gw_fresh + n
    /\ gw_bursts' = gw_bursts + 1
    /\ UNCHANGED << gw_now, not_gateway >>

\* seconds by which the clock moves between queries
Ticks == {15}

\* time passes
Tick(seconds) ==
    /\ gw_now < ttl
    /\ gw_now' = gw_now + seconds
    /\ UNCHANGED << gw_cache, gw_last, gw_fresh, gw_bursts, not_gateway >>

\* Queries issued one after the other, each answered before the next is issued:
\* a query that gets repeated, and runs of queries never issued before.
NextGateway ==
    \/ \E response \in {"ok", "http_error"} : QueryTracked(response)
    \/ \E n \in Bursts : QueryOthers(n)
    \/ \E seconds \in Ticks : Tick(seconds)

SpecGateway == Init /\ [][NextGateway]_vars

-----------------------------------------------------------------------------
(* The chat endpoint (main.py) *)

\* request texts are up to MaxMessage characters, and up to MaxRequests requests are made
MaxMessage == 2
MaxRequests == 3

\* the characters of a request text; str.strip() removes the whitespace ones
Whitespace == {" ", "\t"}
Characters == Whitespace \cup {"q"}
Messages == UNION {[1 .. n -> Characters] : n \in 0 .. MaxMessage}

RECURSIVE lstrip(_)
lstrip(m) == IF m # << >> /\ Head(m) \in Whitespace THEN lstrip(Tail(m)) ELSE m

RECURSIVE rstrip(_)
rstrip(m) ==
    IF m # << >> /\ m[Len(m)] \in Whitespace THEN rstrip(SubSeq(m, 1, Len(m) - 1)) ELSE m

\* a strip that removes nothing
strip_nothing(m) == m

\* str.strip()
strip(m) == rstrip(lstrip(m))

\* the variables of the other direct calls, which the chat endpoint leaves alone
not_chat == << store_direct, exec_direct, time_direct, health_direct, anomaly_direct,
              correlate_direct, gateway_direct, current_direct >>

\* lines 141-148: the request arrives (the agent exists from startup on); an empty
\* text is answered 400, any other text is handed to analyze
Chat(p, id, m) ==
    /\ pc[p] \in {"idle", "done", "raised"}
    /\ chat_in.n > 0 => chat_out # NoReply
    /\ chat_in' = [n |-> chat_in.n + 1, conversation_id |-> id, message |-> m]
    /\ IF strip(m) = << >>
       THEN /\ chat_out' = [status_code |-> 400]
            /\ UNCHANGED << heap, self_hist, cache, disk, locals >>
       ELSE /\ chat_out' = NoReply
            /\ StartCore(p, id)
    /\ UNCHANGED not_chat

\* lines 149-157: analyze returned (200) or an exception left it (500)
ChatReply(p) ==
    /\ chat_in.n > 0
    /\ chat_out = NoReply
    /\ pc[p] \in {"done", "raised"}
    /\ chat_out' = [status_code |-> IF pc[p] = "done" THEN 200 ELSE 500]
    /\ UNCHANGED << heap, self_hist, cache, disk, locals, chat_in, not_chat >>

\* Chat requests served one after the other, each for no conversation id or for
\* conversation "A", against a model that asks for one plain tool call per turn
\* until it answers, fails, or the ceiling is reached.
NextChat ==
    \/ \E id \in {NoConv, "A"}, m \in Messages :
           chat_in.n < MaxRequests /\ ncalls < MaxCalls /\ Chat(1, id, m)
    \/ \E content \in FinalContents : LLMFinal(1, content)
    \/ LLMToolCalls(1, << Plain >>)
    \/ LLMRaise(1)
    \/ ToolStep(1)
    \/ Finish(1, "written")
    \/ ChatReply(1)

SpecChat == InitStored /\ [][NextChat]_vars

-----------------------------------------------------------------------------
(* The metric tools of ToolExecutor on a backend response *)

\* a backend response carries up to MaxValues values
MaxValues == 3

\* the keys of PromQLBuilder.METRICS
MetricKeys ==
    {"active_connections", "idle_connections", "total_connections", "max_connections",
     "connection_utilization", "transactions_committed", "transactions_rolled_back",
     "transaction_wraparound", "locks_total", "exclusive_locks", "waiting_locks",
     "buffer_cache_hit_ratio", "blocks_read", "blocks_hit", "backend_writes",
     "checkpoints", "checkpoint_write_time", "rows_inserted", "rows_updated",
     "rows_deleted", "dead_tuples", "replication_lag", "database_size", "cpu_load1",
     "cpu_load5", "cpu_load15", "cpu_utilization", "cpu_utilization_user",
     "cpu_utilization_iowait", "memory_utilization", "table_size", "sequential_scans",
     "index_scans", "query_execution_time", "query_calls", "query_mean_time"}

\* PromQLBuilder.get_incident_metrics()
IncidentMetrics ==
    << "active_connections", "total_connections", "connection_utilization",
       "transactions_committed", "transactions_rolled_back", "locks_total",
       "exclusive_locks", "waiting_locks", "buffer_cache_hit_ratio", "blocks_read",
       "backend_writes", "rows_inserted", "rows_updated", "dead_tuples",
       "cpu_utilization", "cpu_utilization_iowait", "memory_utilization", "cpu_load1",
       "table_size", "sequential_scans", "index_scans", "query_mean_time" >>

NoMetric == [found |-> FALSE, threshold_warning |-> 0, threshold_critical |-> 0]

\* a lookup that knows only the metrics with thresholds
get_metric_thresholds_only(metric_name) ==
    IF metric_name \in MetricKeys /\ Thresholds(metric_name).critical # 0
    THEN [found |-> TRUE,
          threshold_warning  |-> Thresholds(metric_name).warning,
          threshold_critical |-> Thresholds(metric_name).critical]
    ELSE NoMetric

\* PromQLBuilder.get_metric: the catalog entry (its thresholds, 0 = None), or None
get_metric(metric_name) ==
    IF metric_name \in MetricKeys
    THEN [found |-> TRUE,
          threshold_warning  |-> Thresholds(metric_name).warning,
          threshold_critical |-> Thresholds(metric_name).critical]
    ELSE NoMetric

\* PrometheusClient.query_instant / query_range: the response comes from the
\* cache without a request, or from one GET, whose raise_for_status may raise
gateway(in) ==
    IF in.cached THEN [raised |-> FALSE, result |-> in.response, requests |-> 0]
    ELSE IF in.response.status = "http_error"
    THEN [raised |-> TRUE, result |-> NoAnswer, requests |-> 1]
    ELSE [raised |-> FALSE, result |-> in.response, requests |-> 1]

\* line 350: float(value[1]) if value[1] and value[1] != "NaN" else None
current_values(data) ==
    [i \in 1 .. Len(data) |-> [none |-> data[i].nan, value |-> data[i].number]]

\* a loop that stops at the first value that reaches a threshold
RECURSIVE threshold_loop_first(_, _, _)
threshold_loop_first(metric, values, status) ==
    IF values = << >> THEN status
    ELSE LET v == Head(values)
             truthy == ~v.none /\ v.value # 0
         IN  IF truthy /\ v.value >= metric.threshold_critical THEN "critical"
             ELSE IF truthy /\ metric.threshold_warning # 0
                            /\ v.value >= metric.threshold_warning
             THEN "warning"
             ELSE threshold_loop_first(metric, Tail(values), status)

\* lines 358-363: the loop over the values
RECURSIVE threshold_loop(_, _, _)
threshold_loop(metric, values, status) ==
    IF values = << >> THEN status
    ELSE LET v == Head(values)
             truthy == ~v.none /\ v.value # 0
         IN  IF truthy /\ v.value >= metric.threshold_critical THEN "critical"
             ELSE IF truthy /\ metric.threshold_warning # 0
                            /\ v.value >= metric.threshold_warning
             THEN threshold_loop(metric, Tail(values), "warning")
             ELSE threshold_loop(metric, Tail(values), status)

\* lines 355-363
check_thresholds(metric, values) ==
    IF metric.threshold_critical # 0 /\ values # << >>
    THEN threshold_loop(metric, values, "normal")
    ELSE "normal"

\* what a metric tool returns: the keys of the mapping and the entries examined
Payload(keys, error, details, values, status) ==
    [keys |-> keys, error |-> error, details |-> details, values |-> values,
     threshold_status |-> status]

NoPayload == Payload({}, "", NoAnswer, << >>, "")
UnknownMetric == Payload({"error"}, "Unknown metric", NoAnswer, << >>, "")
QueryFailedPayload(response) ==
    Payload({"error", "details"}, "Query failed", response, << >>, "")

\* what a call of a metric tool did: queries counts its calls of the gateway,
\* requests the GETs the gateway sent
Outcome(raised, payload, queries, requests) ==
    [returned |-> ~raised, raised |-> raised, payload |-> payload, queries |-> queries,
     requests |-> requests]

\* _get_current_metric_value(metric_name)
get_current_metric_value(in) ==
    LET metric == get_metric(in.metric_name)
        g      == gateway(in)
    IN  IF ~metric.found THEN Outcome(FALSE, UnknownMetric, 0, 0)
        ELSE IF g.raised THEN Outcome(TRUE, NoPayload, 1, g.requests)
        ELSE IF g.result.status = "success"
        THEN Outcome(FALSE,
                     Payload(ResultKeys("get_current_metric_value"), "", NoAnswer,
                             current_values(g.result.values),
                             check_thresholds(metric, current_values(g.result.values))),
                     1, g.requests)
        ELSE Outcome(FALSE, QueryFailedPayload(g.result), 1, g.requests)

\* a query that asks the gateway a second time when the status is not success
query_metric_retrying(in) ==
    LET metric == get_metric(in.metric_name)
        g      == gateway(in)
    IN  IF ~metric.found THEN Outcome(FALSE, UnknownMetric, 0, 0)
        ELSE IF g.raised THEN Outcome(TRUE, NoPayload, 1, g.requests)
        ELSE IF g.result.status = "success"
        THEN Outcome(FALSE,
                     Payload(ResultKeys("query_prometheus_metric"), "", NoAnswer,
                             processed(g.result.values), ""),
                     1, g.requests)
        ELSE Outcome(FALSE, QueryFailedPayload(g.result), 2, 2 * g.requests)

\* _query_prometheus_metric(metric_name, start_timestamp, end_timestamp, step),
\* the values of the response being those of one series
query_metric(in) ==
    LET metric == get_metric(in.metric_name)
        g      == gateway(in)
    IN  IF ~metric.found THEN Outcome(FALSE, UnknownMetric, 0, 0)
        ELSE IF g.raised THEN Outcome(TRUE, NoPayload, 1, g.requests)
        ELSE IF g.result.status = "success"
        THEN Outcome(FALSE,
                     Payload(ResultKeys("query_prometheus_metric"), "", NoAnswer,
                             processed(g.result.values), ""),
                     1, g.requests)
        ELSE Outcome(FALSE, QueryFailedPayload(g.result), 1, g.requests)

\* _analyze_metric_anomalies, lines 386-391 and the keys of what line 439 returns
analyze_anomalies(in) ==
    LET data == query_metric(in)
    IN  IF data.raised THEN data
        ELSE IF "error" \in data.payload.keys THEN data
        ELSE Outcome(FALSE,
                     Payload(ResultKeys("analyze_metric_anomalies"), "", NoAnswer,
                             data.payload.values, ""),
                     data.queries, data.requests)

\* the handler of a metric tool
metric_tool(in) ==
    CASE in.tool = "get_current_metric_value" -> get_current_metric_value(in)
      [] in.tool = "query_prometheus_metric"  -> query_metric(in)
      [] in.tool = "analyze_metric_anomalies" -> analyze_anomalies(in)

MetricTools == {"get_current_metric_value", "query_prometheus_metric",
                "analyze_metric_anomalies"}

\* the values a response reports for a metric: "NaN", zero, one, and the numbers
\* at its thresholds and just below its critical threshold
ReportedValues(name) ==
    LET t == Thresholds(name)
    IN  {NaN, Number(0), Number(1)}
        \cup (IF t.critical = 0 THEN {}
              ELSE {Number(t.warning), Number(t.critical - 1), Number(t.critical)})

\* the backend's responses: a success with up to MaxValues values, a body whose
\* status is not success, or an HTTP error status
Responses(name) ==
    { [status |-> "success", values |-> vs] :
          vs \in UNION { [1 .. k -> ReportedValues(name)] : k \in 0 .. MaxValues } }
    \cup { [status |-> "error", values |-> << >>], [status |-> "http_error", values |-> << >>] }

\* a body is cached whatever its status; an HTTP error is never cached
MetricInputs(names) ==
    UNION { { [tool |-> tool, metric_name |-> name, response |-> response, cached |-> cached] :
                  tool \in MetricTools, response \in Responses(name), cached \in BOOLEAN } :
            name \in names }

InitMetric ==
    /\ heap = [r \in Refs |-> << >>]
    /\ self_hist = 0
    /\ cache = [i \in ConvIds |-> 0]
    /\ disk = Stored(0)
    /\ InitLocals
    /\ InitStoreDirect
    /\ InitExecDirect
    /\ InitTimeDirect
    /\ InitHealthDirect
    /\ InitAnomalyDirect
    /\ InitCorrelateDirect
    /\ InitGatewayDirect
    /\ InitChatDirect
    /\ cur_in \in MetricInputs({"no_such_metric"} \cup MetricKeys)
    /\ cur_in.cached => cur_in.response.status # "http_error"
    /\ cur_out = NoCurrent

\* await handler(**arguments) for a metric tool
InvokeMetricTool ==
    /\ cur_out = NoCurrent
    /\ cur_out' = metric_tool(cur_in)
    /\ UNCHANGED << heap, self_hist, cache, disk, locals, store_direct, exec_direct,
                    time_direct, health_direct, anomaly_direct, correlate_direct,
                    gateway_direct, chat_direct, cur_in >>

NextMetric == InvokeMetricTool

SpecMetric == InitMetric /\ [][NextMetric]_vars

-----------------------------------------------------------------------------
(* The orchestration loop: termination and results *)

\* the call of p is over: it returned or an exception left it
Ended(p) == pc[p] \in {"done", "raised"}

\* every model response of the call so far requested at least one tool call
NeverFinalized(p) == \A i \in 1 .. Len(responses[p]) : responses[p][i].calls > 0

\* C1: whatever the model collaborator answers, one analyze call invokes it at most
\* max_iterations (6) times, and a call whose every model response requested tool
\* calls ends by returning iterations = 6 and analysis = None, never by raising.
C1_CeilingReturn ==
    \A p \in Procs :
        /\ Len(responses[p]) <= max_iterations
        /\ (Ended(p) /\ exc[p] # "ModelError" /\ NeverFinalized(p)) =>
              /\ pc[p] = "done"
              /\ result[p].iterations = max_iterations
              /\ result[p].analysis = None

\* a first model response requesting one tool call, a second with the final text T
OneToolThenT == << [calls |-> 1, content |-> None], [calls |-> 0, content |-> "T"] >>

\* C3: when the first model response requested exactly one tool call and the
\* second was the final text T, analyze returns iterations = 2, a trace of
\* length 1 and analysis = T.
C3_OneToolThenAnswer ==
    \A p \in Procs :
        (Ended(p) /\ responses[p] = OneToolThenT) =>
            /\ pc[p] = "done"
            /\ result[p].returned
            /\ result[p].iterations = 2
            /\ Len(result[p].tool_calls) = 1
            /\ result[p].analysis = "T"

\* a call returned after one tool call and the final text T
C3_Witness ==
    /\ pc[1] = "done"
    /\ responses[1] = OneToolThenT
    /\ result[1].analysis = "T"
    /\ result[1].iterations = 2

\* C5: a returned result without an answer (analysis = None) always carries
\* iterations = 6, the ceiling.
C5_NoAnswerOnlyAtCeiling ==
    \A p \in Procs :
        (result[p].returned /\ result[p].analysis = None) =>
            result[p].iterations = max_iterations

-----------------------------------------------------------------------------
(* The orchestration loop: tool calls *)

\* the tool call the for loop of p is at, and its parsed arguments
CurrentCall(p) == message[p][tc_idx[p]]
CurrentArgs(p) == json_loads(CurrentCall(p).arguments)

\* where the loop goes once the current tool call is recorded
AfterCall(p) ==
    IF tc_idx[p] < Len(message[p]) THEN "tool"
    ELSE IF iteration[p] < max_iterations THEN "await_llm" ELSE "finish"

\* this step recorded the current tool call of p: one tool message tagged with the
\* call's id, one trace entry, no exception, and the loop goes on
RecordedStep(p) ==
    /\ Len(heap'[self_hist']) = Len(heap[self_hist]) + 1
    /\ SubSeq(heap'[self_hist'], 1, Len(heap[self_hist])) = heap[self_hist]
    /\ LET m == heap'[self_hist'][Len(heap'[self_hist'])]
       IN  /\ m.role = "tool"
           /\ m.tool_call_id = CurrentCall(p).id
    /\ Len(tool_calls_made'[p]) = Len(tool_calls_made[p]) + 1
    /\ SubSeq(tool_calls_made'[p], 1, Len(tool_calls_made[p])) = tool_calls_made[p]
    /\ tool_calls_made'[p][Len(tool_calls_made'[p])].tool = CurrentCall(p).name
    /\ exc'[p] = None
    /\ pc'[p] = AfterCall(p)

\* ... and what it recorded is an error result
ErrorRecordedStep(p) ==
    /\ RecordedStep(p)
    /\ "error" \in heap'[self_hist'][Len(heap'[self_hist'])].payload.keys
    /\ tool_calls_made'[p][Len(tool_calls_made'[p])].result_summary = "Error"

\* execute is called in this step for an unregistered tool or arguments the handler rejects
FailsAtCall(p) ==
    /\ pc[p] = "tool"
    /\ pc'[p] # "tool" \/ tc_idx'[p] # tc_idx[p]
    /\ CurrentArgs(p).ok
    /\ CurrentCall(p).name \notin Handlers \/ ~Binds(CurrentCall(p).name, CurrentArgs(p))

\* the backend answers the handler's query in this step
BackendAnswers(p, answer) ==
    /\ pc[p] = "await_tool"
    /\ pc'[p] # "await_tool"
    /\ backend'[p] = answer

SingleMetricTools == {"query_prometheus_metric", "get_current_metric_value",
                      "analyze_metric_anomalies"}

C7_MalformedAbsorbed ==
    [][\A p \in Procs :
          (pc[p] = "tool" /\ ~CurrentArgs(p).ok /\ pc'[p] # "tool")
              => ErrorRecordedStep(p)]_vars

-----------------------------------------------------------------------------
(* The orchestration loop: order of tool calls, tool messages and trace *)

\* the messages the current request of p put into self.conversation_history
Own(p) ==
    LET mine(m) == m.req = req[p]
    IN  SelectSeq(heap[self_hist], mine)

\* the tool calls the assistant messages of a history record, in order
RECURSIVE Requested(_)
Requested(history) ==
    IF history = << >> THEN << >>
    ELSE (IF Head(history).role = "assistant" THEN Head(history).tool_calls ELSE << >>)
         \o Requested(Tail(history))

\* the tool messages of a history, in order
ToolMsgs(history) ==
    LET tool(m) == m.role = "tool"
    IN  SelectSeq(history, tool)

\* the tool calls of the current turn that are not executed yet
Pending(p) ==
    IF pc[p] \in {"tool", "await_tool"} THEN Len(message[p]) - tc_idx[p] + 1 ELSE 0

\* an assistant message at position i that records k tool calls is followed
\* immediately by the tool messages of its calls, in the order requested: all k
\* of them, or those executed so far when it is the turn in progress
TurnsInOrder(p) ==
    LET seg == Own(p)
    IN  \A i \in 1 .. Len(seg) :
            (seg[i].role = "assistant" /\ seg[i].tool_calls # << >>) =>
                LET k    == Len(seg[i].tool_calls)
                    last == \A j \in (i + 1) .. Len(seg) : seg[j].role = "tool"
                    n    == IF last THEN k - Pending(p) ELSE k
                IN  /\ i + n <= Len(seg)
                    /\ \A j \in 1 .. n :
                          /\ seg[i + j].role = "tool"
                          /\ seg[i + j].tool_call_id = seg[i].tool_calls[j].id
                    /\ i + n < Len(seg) => seg[i + n + 1].role # "tool"

\* the trace has one entry per executed tool call, in execution order
TraceInOrder(p) ==
    LET calls == Requested(Own(p))
        tools == ToolMsgs(Own(p))
    IN  /\ Len(tools) = Len(calls) - Pending(p)
        /\ Len(tool_calls_made[p]) = Len(tools)
        /\ \A n \in 1 .. Len(tools) :
              /\ tools[n].tool_call_id = calls[n].id
              /\ tool_calls_made[p][n].tool = calls[n].name
              /\ tool_calls_made[p][n].arguments = json_loads(calls[n].arguments)
              /\ (tool_calls_made[p][n].result_summary = "Error")
                    <=> ("error" \in tools[n].payload.keys)

\* C4: within one analyze call every model turn that requests tool calls c1..ck
\* puts into the history one assistant message recording them, followed
\* immediately by k tool messages in the same order, the i-th tagged with the id
\* of ci; the calls are executed one at a time in that order; the trace only
\* grows and has one entry per executed call in execution order, the calls of the
\* last (ceiling) iteration included, and it is the trace analyze returns.
C4_ToolCallsInOrder ==
    [][\A p \in Procs :
          /\ pc'[p] \in {"await_llm", "tool", "await_tool", "finish", "done"} =>
                /\ TurnsInOrder(p)'
                /\ TraceInOrder(p)'
                /\ Own(p)'[1] = UserMsg(req'[p])
          /\ pc'[p] = "done" => result'[p].tool_calls = tool_calls_made'[p]
          /\ req'[p] = req[p] =>
                /\ Len(tool_calls_made'[p]) >= Len(tool_calls_made[p])
                /\ SubSeq(tool_calls_made'[p], 1, Len(tool_calls_made[p])) = tool_calls_made[p]]_vars

\* a call that ran into the ceiling with a two-call turn on its last iteration
C4_Witness ==
    /\ pc[1] = "done"
    /\ result[1].iterations = max_iterations
    /\ Len(result[1].tool_calls) = max_iterations + 1
    /\ Len(message[1]) = 2
    /\ message[1][1].name # message[1][2].name

-----------------------------------------------------------------------------
(* The Conversation Store under analyze *)

\* a stored history begins with the system instruction
LeadsWithSystem(history) == history # << >> /\ history[1] = SystemMsg

\* C10: after any sequence of analyze calls made one after the other, every
\* history the store holds (cache entry and durable record) is non-empty and
\* its element 0 is the system instruction.
C10_SystemFirst ==
    \A id \in ConvIds :
        /\ cache[id] # 0 => LeadsWithSystem(heap[cache[id]])
        /\ disk[id].exists => LeadsWithSystem(disk[id].data)

\* a second call for "A" has returned and its save trimmed the history
C10_Witness ==
    /\ ncalls = MaxCalls
    /\ pc[1] = "done"
    /\ cid[1] = "A"
    /\ Len(heap[self_hist]) > max_history + 1
    /\ Len(disk["A"].data) = max_history + 1
    /\ disk["A"].data[2] # heap[self_hist][2]


-----------------------------------------------------------------------------
(* The dispatcher: no exception leaves execute *)

\* execute has been called directly and has come back
Executed == exec_out # NoOutcome

\* the handler of the call raises: the arguments do not bind or the backend fails
HandlerRaises ==
    /\ exec_in.tool_name \in Handlers
    /\ Handle(exec_in.tool_name, exec_in.arguments, exec_in.answer).raised

\* C8: execute never raises; for a tool name that is not one of the eight
\* registered names it returns a mapping with an "error" field, and for a
\* registered tool whose handler raises (arguments with missing or unexpected
\* keys included) it returns a mapping with an "error" field.
C8_ExecuteNeverRaises ==
    Executed =>
        /\ ~exec_out.raised
        /\ exec_in.tool_name \notin Handlers => "error" \in exec_out.value.keys
        /\ HandlerRaises => "error" \in exec_out.value.keys

\* a registered tool was called with an unexpected key, its handler raised, and
\* execute returned the error mapping
C8_Witness ==
    /\ Executed
    /\ exec_in.tool_name = "get_metric_info"
    /\ "bogus" \in exec_in.arguments.keys
    /\ HandlerRaises
    /\ ~exec_out.raised
    /\ exec_out.value = ErrorResult("TypeError", {})

-----------------------------------------------------------------------------
(* The Conversation Store: trimming *)

\* save_history(id, store_in) has been called
Saved(id) == cache[id] # 0

\* the history is longer than max_history + 1 and leads with a system message
LongWithSystem(history) ==
    /\ Len(history) > max_history + 1
    /\ history[1].role = "system"

\* the leading message followed by the last max_history messages
HeadAndTail(history) == << history[1] >> \o LastN(history, max_history)

\* C9 as stated: save_history on a history longer than max_history + 1 whose
\* element 0 has role system stores element 0 followed by the last max_history
\* messages of the input, in their order: max_history + 1 messages, the first
\* of them the original system message.
C9_AsStated ==
    \A id \in ConvIds :
        Saved(id) /\ LongWithSystem(store_in) =>
            /\ heap[cache[id]] = HeadAndTail(store_in)
            /\ Len(heap[cache[id]]) = max_history + 1
            /\ heap[cache[id]][1] = store_in[1]

\* C9, amended: save_history on a history longer than max_history + 1 whose
\* element 0 has role system, and whose last max_history messages do not begin
\* with a message equal to element 0, stores element 0 followed by the last
\* max_history messages, max_history + 1 in all, the first of them the original
\* system message; when the last max_history messages do begin with a message
\* equal to element 0, it stores just those max_history messages.
C9_TrimKeepsSystem ==
    \A id \in ConvIds :
        Saved(id) /\ LongWithSystem(store_in) =>
            IF LastN(store_in, max_history)[1] # store_in[1]
            THEN /\ heap[cache[id]] = HeadAndTail(store_in)
                 /\ Len(heap[cache[id]]) = max_history + 1
                 /\ heap[cache[id]][1] = store_in[1]
            ELSE /\ heap[cache[id]] = LastN(store_in, max_history)
                 /\ Len(heap[cache[id]]) = max_history

\* a history of length max_history + 5 with one system message, at its head,
\* was saved and max_history + 1 messages are stored
C9_Witness ==
    /\ Saved("A")
    /\ Len(store_in) = max_history + MaxExtra
    /\ LongWithSystem(store_in)
    /\ \A i \in 2 .. Len(store_in) : store_in[i].role # "system"
    /\ Len(heap[cache["A"]]) = max_history + 1
    /\ heap[cache["A"]][2] = store_in[MaxExtra + 1]

-----------------------------------------------------------------------------
(* Two requests at once: each conversation keeps to itself *)

\* the messages of history that are neither stored earlier (req <= 0) nor made
\* by request r
Foreign(history, r) ==
    { i \in 1 .. Len(history) : history[i].req > 0 /\ history[i].req # r }

\* C2: when two analyze calls for different conversation ids interleave at their
\* awaits, the message list passed to the model for a conversation, and the
\* history persisted under it, hold only messages of that conversation's stored
\* history and of its own request; no message of the other request is in them.
C2_ConversationsIsolated ==
    \A p \in Procs :
        req[p] # 0 =>
            /\ Foreign(sent[p], req[p]) = {}
            /\ disk[cid[p]].exists => Foreign(disk[cid[p]].data, req[p]) = {}

-----------------------------------------------------------------------------
(* The Conversation Store: cache and durable storage *)

\* C11: with durable writes succeeding, in every state between store operations,
\* an analyze call in progress or aborted included, what get_history(id) returns
\* from the in-memory cache is what durable storage holds for id.
C11_CacheMatchesDisk ==
    \A id \in ConvIds :
        cache[id] # 0 =>
            /\ disk[id].exists
            /\ get_history(id, heap, self_hist, cache, disk).heap[cache[id]] = disk[id].data

-----------------------------------------------------------------------------
(* Calls without a conversation id *)

\* the content of the Conversation Store: per id, the cached list and the durable record
StoreContent(hp, ch, dk) ==
    [id \in ConvIds |-> [cached  |-> ch[id] # 0,
                         history |-> IF ch[id] # 0 THEN hp[ch[id]] ELSE << >>,
                         durable |-> dk[id]]]

\* the step is one of call p
StepOf(p) ==
    \/ pc'[p] # pc[p]
    \/ iteration'[p] # iteration[p]
    \/ tc_idx'[p] # tc_idx[p]
    \/ req'[p] # req[p]

\* C12: no step of an analyze call made without a conversation id, from its
\* start to its return with a final answer or at the iteration ceiling, changes
\* the Conversation Store: the cache entries, the cached histories and the
\* durable records of every conversation id stay as they were (nothing is saved).
C12_AnonymousLeavesStore ==
    [][\A p \in Procs :
          (StepOf(p) /\ cid'[p] = NoConv) =>
              StoreContent(heap', cache', disk') = StoreContent(heap, cache, disk)]_vars

\* a call without a conversation id returned its answer after a call for "A" had
\* left a history in the store
C12_Witness ==
    /\ ncalls = MaxCalls
    /\ pc[1] = "done"
    /\ cid[1] = NoConv
    /\ result[1].returned
    /\ result[1].analysis = "T"
    /\ Len(result[1].tool_calls) > 0
    /\ cache["A"] # 0
    /\ disk["A"].exists

-----------------------------------------------------------------------------
(* The final answer in the persisted history *)

\* the last message of a history is the answer content of request r
EndsWithAnswer(history, content, r) ==
    /\ history # << >>
    /\ history[Len(history)] = AssistantMsg(content, r)

\* C13: when analyze was called with a conversation id and the model returned the
\* final answer T (a text that is not empty), the history persisted for that id after the call ends with an
\* assistant message whose content is T, also when the save trimmed the history.
C13_AnswerPersistedLast ==
    \A p \in Procs :
        (pc[p] = "done" /\ cid[p] # NoConv /\ result[p].analysis = "T") =>
            /\ disk[cid[p]].exists
            /\ EndsWithAnswer(disk[cid[p]].data, "T", req[p])
            /\ cache[cid[p]] # 0
            /\ EndsWithAnswer(heap[cache[cid[p]]], "T", req[p])

\* a call for "A" returned the answer T and its save trimmed the history
C13_Witness ==
    /\ pc[1] = "done"
    /\ cid[1] = "A"
    /\ result[1].analysis = "T"
    /\ Len(heap[self_hist]) > max_history + 1
    /\ Len(disk["A"].data) = max_history + 1
    /\ EndsWithAnswer(disk["A"].data, "T", req[1])

-----------------------------------------------------------------------------
(* The message list of the first model invocation *)

\* the history the store holds for id: the last one saved, or none
StoredFor(id) ==
    IF id # NoConv /\ disk[id].exists THEN disk[id].data ELSE << >>

\* the user messages of request r in a history
UserMsgsOf(history, r) ==
    { i \in 1 .. Len(history) : history[i].role = "user" /\ history[i].req = r }

\* C14: the message list given to the first model invocation of a call is, for
\* an absent or unknown conversation id, the system instruction and the user
\* message, and for a known id the history the previous analyze call stored for
\* it followed by one new user message; each call appends one user message.
C14_FirstMessageList ==
    \A p \in Procs :
        (pc[p] = "await_llm" /\ iteration[p] = 1) =>
            /\ sent[p] = (IF StoredFor(cid[p]) = << >>
                          THEN << SystemMsg >>
                          ELSE StoredFor(cid[p])) \o << UserMsg(req[p]) >>
            /\ Cardinality(UserMsgsOf(sent[p], req[p])) = 1

-----------------------------------------------------------------------------
(* The Conversation Store: unknown and cleared ids *)

\* this step is a direct get_history(id)
GetStep(id) == got'.tick # got.tick /\ got'.id = id

\* C15: get_history(id) returns an empty history for every id that was never
\* saved, and again after clear_history(id) whatever was saved before: the cache
\* entry and the durable record of such an id are gone, and get_history creates
\* neither.
C15_UnknownIsEmpty ==
    [][\A id \in ConvIds :
          /\ saved'[id] # "saved" => (cache'[id] = 0 /\ ~disk'[id].exists)
          /\ (GetStep(id) /\ saved[id] # "saved") =>
                /\ got'.history = << >>
                /\ cache'[id] = 0
                /\ ~disk'[id].exists]_vars

\* "A" was saved, with messages, then cleared, and get_history("A") came back empty
C15_Witness ==
    /\ store_in # << >>
    /\ got.called
    /\ got.id = "A"
    /\ got.history = << >>
    /\ saved["A"] = "cleared"
    /\ saved["B"] = "saved"
    /\ cache["B"] # 0

-----------------------------------------------------------------------------
(* The Conversation Store: a durable write that fails *)

\* the file of id does not hold what the cache holds: the last write failed
WriteFailed(hp, ch, dk, id) ==
    ch[id] # 0 /\ (~dk[id].exists \/ ~dk[id].readable \/ dk[id].data # hp[ch[id]])

\* the history analyze hands to save_history in this step
HandedToSave(p) ==
    IF Truthy(final_response[p])
    THEN Append(heap[self_hist], AssistantMsg(final_response[p], req[p]))
    ELSE heap[self_hist]

\* C16: when the durable write inside save_history fails, save_history does not
\* raise (analyze returns), the cache holds the trimmed history that was passed
\* to the save, and the next get_history(id) of the process returns it: the
\* following analyze call for id sends it to the model, followed by its user message.
C16_FailedWriteKeepsCache ==
    [][\A p \in Procs :
          /\ (pc[p] = "finish" /\ pc'[p] # "finish" /\ cid[p] # NoConv
                 /\ WriteFailed(heap', cache', disk', cid[p])) =>
                /\ pc'[p] = "done"
                /\ result'[p].returned
                /\ heap'[cache'[cid[p]]] = Trim(HandedToSave(p))
          /\ (pc[p] = "done" /\ pc'[p] = "await_llm" /\ cid'[p] # NoConv
                 /\ WriteFailed(heap, cache, disk, cid'[p])) =>
                sent'[p] = heap[cache[cid'[p]]] \o << UserMsg(req'[p]) >>]_vars

\* the save of a first call for "A" trimmed the history and its write failed, and
\* a second call for "A" has sent the trimmed history and its user message
C16_Witness ==
    /\ ncalls = MaxCalls
    /\ pc[1] = "await_llm"
    /\ iteration[1] = 1
    /\ cid[1] = "A"
    /\ Len(sent[1]) = max_history + 2
    /\ sent[1][1] = SystemMsg
    /\ disk["A"].exists
    /\ disk["A"].data # SubSeq(sent[1], 1, max_history + 1)

-----------------------------------------------------------------------------
(* The health summary: status and alerts *)

Rank(status) == CASE status = "healthy" -> 0 [] status = "warning" -> 1 [] status = "critical" -> 2

\* some examined metric came back with the given threshold status
Seen(status) == \E i \in 1 .. Len(health_seen) : health_seen[i] = status

\* C17: while the health summary goes over the health-check metrics its status
\* never moves down in the order healthy < warning < critical; the status it
\* returns is critical iff a retrieved metric is critical, warning iff none is
\* critical and one is warning, and healthy otherwise.
C17_StatusEscalates ==
    [][/\ (summary # NoSummary /\ summary' # NoSummary) =>
              Rank(summary'.status) >= Rank(summary.status)
       /\ summary'.returned =>
              summary'.status = (IF Seen("critical")' THEN "critical"
                                 ELSE IF Seen("warning")' THEN "warning"
                                 ELSE "healthy")]_vars

\* a summary that saw a critical metric and then a warning one returned critical
C17_Witness ==
    /\ summary.returned
    /\ summary.status = "critical"
    /\ health_seen[1] = "critical"
    /\ health_seen[3] = "warning"
    /\ health_seen[4] = "error"

\* the alerts a summary owes to the statuses seen from metric i on
RECURSIVE AlertsFrom(_)
AlertsFrom(i) ==
    IF i > Len(health_seen) THEN << >>
    ELSE (CASE health_seen[i] = "critical" -> << Alert("CRITICAL", HealthMetrics[i]) >>
            [] health_seen[i] = "warning"  -> << Alert("WARNING", HealthMetrics[i]) >>
            [] OTHER -> << >>) \o AlertsFrom(i + 1)

\* C18: the alerts of a health summary are, in health-check order, one alert for
\* each health-check metric whose threshold status is warning (a WARNING entry)
\* or critical (a CRITICAL entry), whatever the metrics before it came back as.
C18_AlertPerMetric ==
    summary.returned => summary.alerts = AlertsFrom(1)

-----------------------------------------------------------------------------
(* The time-range resolver: window order and failures *)

\* C19: for every expression one of the resolver's patterns matches, with any
\* hour pair and any am/pm markers, parse returns a window whose start is not
\* after its end; a match that would give an inverted window falls back.
C19_WindowOrdered ==
    (time_out.returned /\ time_in.matches # {}) =>
        Before(time_out.start, time_out.end)

\* C20: parse never raises and always returns a (start, end) pair, also for a
\* day or date-range match with an hour outside 0..23 or a minute outside 0..59.
C20_ParseNeverRaises ==
    time_out # NoTimeOut => (time_out.returned /\ ~time_out.raised)

-----------------------------------------------------------------------------
(* The time-range resolver: the windows of each pattern *)

\* minutes since 1970-01-01 00:00 (a timestamp, at the granularity of a minute)
Stamp(dt) == dt.day * 1440 + dt.min

UnitMinutes(unit) ==
    CASE unit = "minute" -> 1 [] unit = "hour" -> 60 [] unit = "day" -> 1440
      [] unit = "week" -> 10080

\* C21: for every N >= 0 and unit in minute, hour, day, week, resolving
\* "last N <unit>s" at ref returns exactly (ref - N units, ref), whatever later
\* patterns the expression also matches.
C21_LastExact ==
    (time_out # NoTimeOut /\ "last" \in time_in.matches) =>
        /\ time_out.returned
        /\ time_out.end = time_in.ref
        /\ Stamp(time_out.start) =
               Stamp(time_in.ref) - time_in.last.amount * UnitMinutes(time_in.last.unit)

\* C22: for every N and unit in minute, hour, day, resolving "N <unit>s ago" (with
\* no "last N unit" match in the expression) at ref returns the ten-minute window
\* (ref - N units - 5 min, ref - N units + 5 min).
C22_AgoWindow ==
    (time_out # NoTimeOut /\ "ago" \in time_in.matches /\ "last" \notin time_in.matches) =>
        /\ time_out.returned
        /\ Stamp(time_out.start) =
               Stamp(time_in.ref) - time_in.ago.amount * UnitMinutes(time_in.ago.unit) - 5
        /\ Stamp(time_out.end) =
               Stamp(time_in.ref) - time_in.ago.amount * UnitMinutes(time_in.ago.unit) + 5

\* the instant n minutes from dt, for less than a day of minutes
Around(dt, n) ==
    IF dt.min + n < 0 THEN DateTime(dt.day - 1, dt.min + n + 1440)
    ELSE IF dt.min + n >= 1440 THEN DateTime(dt.day + 1, dt.min + n - 1440)
    ELSE DateTime(dt.day, dt.min + n)

\* the last hour before the reference time was returned
DefaultWindow ==
    /\ time_out.returned
    /\ time_out.end = time_in.ref
    /\ time_out.start = Around(time_in.ref, -60)

\* the hour around the instant the free-form parser found was returned
WindowAroundInstant ==
    /\ time_out.returned
    /\ time_out.start = Around(time_in.free.at, -30)
    /\ time_out.end = Around(time_in.free.at, 30)

\* C23 as stated: with no pattern matching, a failed free-form parse gives
\* (ref - 3600, ref) and a successful one with instant p gives (p - 1800, p + 1800).
C23_AsStated ==
    (time_out # NoTimeOut /\ time_in.matches = {}) =>
        IF time_in.free.parses THEN WindowAroundInstant ELSE DefaultWindow

\* half an hour before and after p are both datetimes (year 1 to year 9999)
WindowRepresentable(p) ==
    /\ ~(p.day = -719162 /\ p.min < 30)
    /\ ~(p.day = 2932896 /\ p.min >= 1410)

\* C23: with no pattern matching, parse returns (p - 1800, p + 1800) when the
\* free-form parse succeeds with an instant p whose window is representable, and
\* (ref - 3600, ref) when it fails or the window around p is not representable.
C23_FallbackWindows ==
    (time_out # NoTimeOut /\ time_in.matches = {}) =>
        IF time_in.free.parses /\ WindowRepresentable(time_in.free.at)
        THEN WindowAroundInstant
        ELSE DefaultWindow

\* an expression no pattern matches was parsed as midnight of 2026-01-25, and the
\* returned window starts on the day before
C23_Witness ==
    /\ time_out.returned
    /\ time_in.matches = {}
    /\ time_in.free.parses
    /\ time_in.free.at = DateTime(20478, 0)
    /\ time_out.start = DateTime(20477, 1410)
    /\ time_out.end = DateTime(20478, 30)

-----------------------------------------------------------------------------
(* The anomaly analysis: spikes, drops and statistics *)

\* the numbers of a backend series, its "NaN" samples left out
NotNaN(raw) == ~raw.nan
Numbers(series) ==
    LET kept == SelectSeq(series, NotNaN)
    IN  [i \in 1 .. Len(kept) |-> kept[i].number]

\* Comparisons against mean + 2 stddev and mean - 2 stddev (population stddev)
\* of the numbers xs, in whole numbers: with n numbers of sum S and
\* Q = sum of (n x - S)^2, the mean is S / n and the stddev sqrt(Q / n^3).
OverMeanPlus2Sd(v, xs) ==
    LET n == Len(xs)
        d == n * v - Sum(xs)
    IN  d > 0 /\ n * d * d > 4 * SqDev(xs)

UnderMeanMinus2Sd(v, xs) ==
    LET n == Len(xs)
        d == Sum(xs) - n * v
    IN  d > 0 /\ n * d * d > 4 * SqDev(xs)

\* value < max(0, mean - 2 stddev)
UnderLowOrZero(v, xs) == v < 0 \/ (v >= 0 /\ UnderMeanMinus2Sd(v, xs))

Listed(list, i) == \E k \in 1 .. Len(list) : list[k].timestamp = i

\* the call analysed exactly one series, which has a number, and returned its entry
OneEntry ==
    /\ anom_out.returned
    /\ ~anom_out.error
    /\ Len(anom_in.data) = 1
    /\ Len(anom_out.anomaly_analysis) = 1

\* C24 as stated: a non-absent sample is in spikes iff value > mean + 2 stddev and
\* in drops iff value < max(0, mean - 2 stddev); no sample is in both lists;
\* has_anomalies iff a list is non-empty.
C24_AsStated ==
    OneEntry =>
        LET series == anom_in.data[1]
            xs     == Numbers(series)
            e      == anom_out.anomaly_analysis[1]
        IN  /\ \A i \in 1 .. Len(series) :
                   ~series[i].nan =>
                       /\ Listed(e.spikes, i) <=> OverMeanPlus2Sd(series[i].number, xs)
                       /\ Listed(e.drops, i) <=> UnderLowOrZero(series[i].number, xs)
                       /\ ~(Listed(e.spikes, i) /\ Listed(e.drops, i))
            /\ e.has_anomalies <=> (e.spikes # << >> \/ e.drops # << >>)

\* C24: a non-absent sample is in spikes iff value > mean + 2 stddev, and in drops
\* iff it is not a spike and value < max(0, mean - 2 stddev); no sample is in
\* both lists; has_anomalies iff a list is non-empty.
C24_SpikesAndDrops ==
    OneEntry =>
        LET series == anom_in.data[1]
            xs     == Numbers(series)
            e      == anom_out.anomaly_analysis[1]
        IN  /\ \A i \in 1 .. Len(series) :
                   ~series[i].nan =>
                       /\ Listed(e.spikes, i) <=> OverMeanPlus2Sd(series[i].number, xs)
                       /\ Listed(e.drops, i) <=>
                              (/\ ~OverMeanPlus2Sd(series[i].number, xs)
                               /\ UnderLowOrZero(series[i].number, xs))
                       /\ ~(Listed(e.spikes, i) /\ Listed(e.drops, i))
            /\ e.has_anomalies <=> (e.spikes # << >> \/ e.drops # << >>)

\* five samples of -100 and a sample of -1 were analysed: the -1 is the one
\* spike, below zero as it is, and the five others are the drops
C24_Witness ==
    /\ OneEntry
    /\ anom_in.data[1] = [i \in 1 .. 6 |-> IF i = 6 THEN Number(-1) ELSE Number(-100)]
    /\ Len(anom_out.anomaly_analysis[1].spikes) = 1
    /\ anom_out.anomaly_analysis[1].spikes[1].timestamp = 6
    /\ Len(anom_out.anomaly_analysis[1].drops) = 5

\* the deviation score is above zero
Positive(deviation) == deviation.num > 0

\* C25: the series 1, 1, 1, 1, 100 has exactly its last sample flagged as a
\* spike, with a strictly positive deviation score, and no drops.
C25_OutlierFlagged ==
    (OneEntry /\ anom_in.data[1] =
         << Number(1), Number(1), Number(1), Number(1), Number(100) >>) =>
        LET e == anom_out.anomaly_analysis[1]
        IN  /\ Len(e.spikes) = 1
            /\ e.spikes[1].timestamp = 5
            /\ Positive(e.spikes[1].deviation)
            /\ e.drops = << >>

\* all numbers of the series are the same number, and there is one at least
Constant(xs) == xs # << >> /\ \A i \in 1 .. Len(xs) : xs[i] = xs[1]

\* C26: a constant series, of any value, gives std_dev 0, no spikes, no drops and
\* has_anomalies false; whenever std_dev is 0 every reported deviation is 0.
C26_ConstantSeriesQuiet ==
    OneEntry =>
        LET e == anom_out.anomaly_analysis[1]
        IN  /\ Constant(Numbers(anom_in.data[1])) =>
                   /\ e.statistics.sqdev = 0
                   /\ e.spikes = << >>
                   /\ e.drops = << >>
                   /\ ~e.has_anomalies
            /\ e.statistics.sqdev = 0 =>
                   /\ \A k \in 1 .. Len(e.spikes) : e.spikes[k].deviation = ZeroDeviation
                   /\ \A k \in 1 .. Len(e.drops) : e.drops[k].deviation = ZeroDeviation

\* C27: a series that is empty, or whose samples are all absent, has an entry in
\* the analysis, with average, max, min and std_dev 0 and has_anomalies false.
C27_DegenerateReported ==
    (/\ anom_out.returned
     /\ ~anom_out.error
     /\ Len(anom_in.data) = 1
     /\ Numbers(anom_in.data[1]) = << >>) =>
        /\ Len(anom_out.anomaly_analysis) = 1
        /\ LET e == anom_out.anomaly_analysis[1]
           IN  /\ e.statistics.sum = 0
               /\ e.statistics.max = 0
               /\ e.statistics.min = 0
               /\ e.statistics.sqdev = 0
               /\ ~e.has_anomalies

HasNumber(series) == Numbers(series) # << >>

\* the backend's series with every "NaN" sample taken out
WithoutNaN(data) == [k \in 1 .. Len(data) |-> SelectSeq(data[k], NotNaN)]

AnomalyValues(list) == [k \in 1 .. Len(list) |-> list[k].value]

\* C28: "NaN" samples are left out of the statistics and never read as 0: mean,
\* max, min and standard deviation, and the values flagged, are those of the
\* series with its "NaN" samples removed, and no "NaN" sample is a spike or a drop.
C28_AbsentExcluded ==
    (anom_out.returned /\ ~anom_out.error) =>
        LET clean  == analyze_series(WithoutNaN(anom_in.data))
            report == anom_out.anomaly_analysis
            having == SelectSeq(anom_in.data, HasNumber)
        IN  /\ Len(report) = Len(clean)
            /\ Len(report) = Len(having)
            /\ \A k \in 1 .. Len(report) :
                   /\ report[k].statistics = clean[k].statistics
                   /\ report[k].statistics.count = Len(Numbers(having[k]))
                   /\ report[k].statistics.sum = Sum(Numbers(having[k]))
                   /\ AnomalyValues(report[k].spikes) = AnomalyValues(clean[k].spikes)
                   /\ AnomalyValues(report[k].drops) = AnomalyValues(clean[k].drops)
                   /\ \A i \in 1 .. Len(having[k]) :
                          having[k][i].nan =>
                              /\ ~Listed(report[k].spikes, i)
                              /\ ~Listed(report[k].drops, i)

\* the series 1, NaN, 100 was analysed: two values, of sum 101 and minimum 1
C28_Witness ==
    /\ OneEntry
    /\ anom_in.data[1] = << Number(1), NaN, Number(100) >>
    /\ anom_out.anomaly_analysis[1].statistics.count = 2
    /\ anom_out.anomaly_analysis[1].statistics.sum = 101
    /\ anom_out.anomaly_analysis[1].statistics.min = 1

-----------------------------------------------------------------------------
(* Correlation: the pairs reported *)

\* the metric was queried without error and one of its series has a data point
HasDataPoint(name) ==
    /\ KnownMetric(name)
    /\ corr_in.answers[name].status = "success"
    /\ \E k \in 1 .. Len(corr_in.answers[name].series) : corr_in.answers[name].series[k] > 0

Provided == { corr_in.metric_names[k] : k \in 1 .. Len(corr_in.metric_names) }

\* the positions in the correlations list that report the pair of m1 and m2
ReportsOf(m1, m2) ==
    { k \in 1 .. Len(corr_out.correlations) :
          corr_out.correlations[k].metrics \in { << m1, m2 >>, << m2, m1 >> } }

\* C29: correlate_metrics reports the pair of every two distinct provided metrics
\* that both have a data point in some series of theirs, reports it exactly
\* once, and reports no pair of which a metric has no data point or failed.
C29_EveryPairWithData ==
    corr_out.returned =>
        \A m1 \in Provided : \A m2 \in Provided \ {m1} :
            IF HasDataPoint(m1) /\ HasDataPoint(m2)
            THEN Cardinality(ReportsOf(m1, m2)) = 1
            ELSE ReportsOf(m1, m2) = {}

-----------------------------------------------------------------------------
(* The query cache: availability until expiry *)

\* the tracked query has an entry that has not expired
TrackedStored == contains(gw_cache, TrackedKey, gw_now)

\* the time the entry of the tracked query expires at
TrackedExpires ==
    gw_cache[CHOOSE i \in 1 .. Len(gw_cache) : gw_cache[i].key = TrackedKey].expires

\* C30: an entry stored for a query key stays available until its expiry
\* interval has elapsed, whatever number of other distinct queries are issued in
\* between, and the identical query repeated inside the interval is answered
\* from the cache without contacting the backend.
C30_AvailableUntilExpiry ==
    [][(TrackedStored /\ gw_now' < TrackedExpires) =>
          /\ contains(gw_cache', TrackedKey, gw_now')
          /\ (gw_last'.key = TrackedKey /\ gw_last' # gw_last) => ~gw_last'.contacted]_vars

-----------------------------------------------------------------------------
(* The chat endpoint: validation *)

\* every character of the text is whitespace
Blank(m) == \A i \in 1 .. Len(m) : m[i] \in Whitespace

\* what analyze and the Conversation Store hold
AgentState == << heap, self_hist, cache, disk, locals >>

\* C31: a chat request whose message is empty or whitespace-only is answered 400
\* at once: the model is not invoked, no tool is executed, and neither the cache
\* nor the durable records of the Conversation Store change.
C31_BlankRejected ==
    [][(chat_in'.n # chat_in.n /\ Blank(chat_in'.message))
          => (chat_out'.status_code = 400 /\ UNCHANGED AgentState)]_vars

\* a whitespace-only request was rejected while conversation "A" was stored and cached
C31_Witness ==
    /\ chat_in.n > 1
    /\ chat_in.message = << " ", "\t" >>
    /\ chat_out.status_code = 400
    /\ cache["A"] # 0
    /\ disk["A"].exists

-----------------------------------------------------------------------------
(* The Conversation Store: bounded histories *)

\* no analyze call is in progress
AtRest == \A p \in Procs : pc[p] \in {"idle", "done", "raised"}

\* C32: once the operations are over, every history the Conversation Store holds,
\* cached or durable, has at most max_history + 1 messages, and saving it again
\* would store it as it is.
C32_StoredBounded ==
    AtRest =>
        \A id \in ConvIds :
            /\ cache[id] # 0 =>
                   /\ Len(heap[cache[id]]) <= max_history + 1
                   /\ Trim(heap[cache[id]]) = heap[cache[id]]
            /\ disk[id].exists =>
                   /\ Len(disk[id].data) <= max_history + 1
                   /\ Trim(disk[id].data) = disk[id].data

-----------------------------------------------------------------------------
(* The metric tools: threshold status, failed queries, the catalog *)

\* the tool returned a mapping for the response it was given
ToolReturned(tool) == cur_out.returned /\ cur_in.tool = tool

\* the numbers the response reports ("NaN" is not one)
ReportedNumbers ==
    { cur_in.response.values[i].number :
          i \in { j \in 1 .. Len(cur_in.response.values) : ~cur_in.response.values[j].nan } }

\* the current values were retrieved for a catalog metric
CurrentRetrieved ==
    /\ ToolReturned("get_current_metric_value")
    /\ cur_in.metric_name \in MetricKeys
    /\ cur_in.response.status = "success"

QueryAnsweredFailure ==
    /\ cur_out # NoCurrent
    /\ cur_in.metric_name \in MetricKeys
    /\ cur_in.response.status = "error"

\* C34: a backend response whose status is not success is returned by the tool as
\* the error payload "Query failed" with the response itself under "details", the
\* tool having asked the gateway exactly once; the anomaly analysis returns that
\* very payload.
C34_FailurePayload ==
    QueryAnsweredFailure =>
        /\ cur_out.returned
        /\ cur_out.payload.keys = {"error", "details"}
        /\ cur_out.payload.error = "Query failed"
        /\ cur_out.payload.details = cur_in.response
        /\ cur_out.queries = 1
        /\ cur_out.requests <= 1
        /\ cur_in.tool = "analyze_metric_anomalies" =>
               cur_out.payload = QueryFailedPayload(cur_in.response)

\* the anomaly analysis of a metric whose query the backend itself answered with
\* a failure
C34_Witness ==
    /\ QueryAnsweredFailure
    /\ cur_in.tool = "analyze_metric_anomalies"
    /\ ~cur_in.cached
    /\ cur_out.requests = 1
    /\ "error" \in cur_out.payload.keys

-----------------------------------------------------------------------------
(* Anomaly analysis: the ten reported spikes and drops *)

\* the samples of the first series that the rule of lines 415 and 421 flags
QualifyingSpikes ==
    Spikes(processed(anom_in.data[1]), present(processed(anom_in.data[1])))
QualifyingDrops ==
    Drops(processed(anom_in.data[1]), present(processed(anom_in.data[1])))

\* at most ten of the flagged samples are reported, and no unreported one has a
\* larger deviation than a reported one (the deviations of one series share
\* their denominator)
TopTen(reported, qualifying) ==
    /\ Len(reported) <= 10
    /\ \A q \in 1 .. Len(qualifying) :
           (\A r \in 1 .. Len(reported) : reported[r] # qualifying[q])
               => \A r \in 1 .. Len(reported) :
                      reported[r].deviation.num >= qualifying[q].deviation.num

\* the analysis of a response with one series returned its entry
OneSeriesAnalyzed ==
    /\ anom_out.returned
    /\ ~anom_out.error
    /\ Len(anom_in.data) = 1
    /\ Len(anom_out.anomaly_analysis) = 1

\* C35: the spikes list and the drops list of a report entry hold at most 10
\* samples each, and when more than 10 samples qualify the 10 reported are those
\* with the largest deviations.
C35_TopTen ==
    OneSeriesAnalyzed =>
        /\ TopTen(anom_out.anomaly_analysis[1].spikes, QualifyingSpikes)
        /\ TopTen(anom_out.anomaly_analysis[1].drops, QualifyingDrops)

-----------------------------------------------------------------------------
(* Persisted histories: tool calls and their results *)

\* the assistant message at j requested the call that the tool message at i answers
Requests(h, j, i) ==
    /\ h[j].role = "assistant"
    /\ \E c \in 1 .. Len(h[j].tool_calls) : h[j].tool_calls[c].id = h[i].tool_call_id

\* every tool message comes after the assistant message that requested its call,
\* and every requested call is followed by its tool message
Paired(h) ==
    /\ \A i \in 1 .. Len(h) :
           h[i].role = "tool" => \E j \in 1 .. i - 1 : Requests(h, j, i)
    /\ \A j \in 1 .. Len(h) :
           h[j].role = "assistant" =>
               \A c \in 1 .. Len(h[j].tool_calls) :
                   \E i \in j + 1 .. Len(h) :
                       h[i].role = "tool" /\ h[i].tool_call_id = h[j].tool_calls[c].id

\* C36: in every history that analyze persisted, each tool message is preceded by
\* an assistant message whose tool calls include its tool_call_id, and each
\* assistant message with tool calls is followed by a tool message for every
\* one of its calls.
C36_ToolCallsPaired ==
    \A id \in ConvIds : disk[id].exists => Paired(disk[id].data)

-----------------------------------------------------------------------------
(* An analyze call that aborts *)

\* what get_history(id) would return now
Visible(id) ==
    LET g == get_history(id, heap, self_hist, cache, disk)
    IN  IF g.ref = 0 THEN << >> ELSE g.heap[g.ref]

\* the call of p for a stored conversation was left by an exception
Aborted(p) == pc[p] = "raised" /\ cid[p] # NoConv /\ disk[cid[p]].exists

\* C37: after an analyze call for a known conversation id aborted with an
\* exception, get_history(id) returns what it returned before the call, which is
\* the durable record (every durable write succeeds here): no message of the
\* aborted call is in it.
C37_AbortLeavesHistory ==
    \A p \in Procs :
        Aborted(p) =>
            /\ Visible(cid[p]) = StoredFor(cid[p])
            /\ \A i \in 1 .. Len(Visible(cid[p])) : Visible(cid[p])[i].req # req[p]

-----------------------------------------------------------------------------
(* The health summary: when it says healthy *)

\* C38: a health summary says healthy only if every health-check metric was
\* retrieved and has threshold status normal; a summary made while every query
\* of the backend fails does not say healthy.
C38_HealthyMeansAllNormal ==
    (summary.returned /\ summary.status = "healthy") =>
        /\ Len(health_seen) = Len(HealthMetrics)
        /\ \A i \in 1 .. Len(health_seen) : health_seen[i] = "normal"

-----------------------------------------------------------------------------
(* The catalog and the curated lists *)

\* the entries of a list
Entries(list) == { list[i] : i \in 1 .. Len(list) }

\* no entry of the list occurs twice in it
DuplicateFree(list) == Cardinality(Entries(list)) = Len(list)

\* C39: every key of get_health_check_metrics and of get_incident_metrics
\* resolves through get_metric to a catalog entry, neither list names a key
\* twice, and a metric tool asked for such a key never answers "Unknown metric".
C39_CuratedResolve ==
    /\ \A name \in Entries(HealthMetrics) \cup Entries(IncidentMetrics) :
           get_metric(name).found
    /\ DuplicateFree(HealthMetrics)
    /\ DuplicateFree(IncidentMetrics)
    /\ (cur_out # NoCurrent
           /\ cur_in.metric_name \in Entries(HealthMetrics) \cup Entries(IncidentMetrics))
          => cur_out.payload # UnknownMetric

\* the current value of cpu_load1, which is in both lists and has no thresholds,
\* was retrieved
C39_Witness ==
    /\ CurrentRetrieved
    /\ cur_in.metric_name = "cpu_load1"
    /\ cur_in.metric_name \in Entries(HealthMetrics) \cap Entries(IncidentMetrics)
    /\ cur_out.payload.threshold_status = "normal"
    /\ cur_in.response.values # << >>

\* the metric has a threshold
HasThreshold(name) == Thresholds(name).warning # 0 \/ Thresholds(name).critical # 0

\* the current value is the one number v
SingleValue(v) == cur_in.response.values = << Number(v) >>

\* C40: every catalog metric that defines a threshold defines both, its warning
\* threshold being at most its critical threshold, so that a current value at the
\* warning threshold yields warning (critical if the two thresholds are equal)
\* and each of normal, warning and critical is the status of some current value.
C40_ThresholdsOrdered ==
    /\ \A name \in MetricKeys :
           HasThreshold(name) =>
               /\ Thresholds(name).warning # 0
               /\ Thresholds(name).critical # 0
               /\ Thresholds(name).warning <= Thresholds(name).critical
    /\ (CurrentRetrieved /\ HasThreshold(cur_in.metric_name)
           /\ SingleValue(Thresholds(cur_in.metric_name).warning))
          => cur_out.payload.threshold_status =
                 (IF Thresholds(cur_in.metric_name).warning
                        = Thresholds(cur_in.metric_name).critical
                  THEN "critical" ELSE "warning")

====
